---- MODULE Spec2Model ----
(***************************************************************************)
(* Execution engine of the janus-framework chain package: a Chain (or      *)
(* MultiChain) of links connected by unbuffered channels, the caller's     *)
(* Send / Close / Wait, the chain error sink (handleError), the link       *)
(* lifecycle (Initialize, Validate, processLoop, Complete, Close) and the  *)
(* collector goroutine.  Every goroutine is a process with a program       *)
(* counter; a channel operation is a rendezvous of a sender and a          *)
(* receiver.                                                               *)
(***************************************************************************)
EXTENDS Integers, Sequences, FiniteSets, TLC

\* ---------------------------------------------------------------- bounds
MaxSends == 2
MaxCloses == 2
\* construction: leaf links available, chains built, links per constructor call
NumLinks == 2
MaxChains == 2
MaxMembers == 2
\* a link run on its own: items handed to it
MaxItems == 2
\* concurrent start: calling goroutines, calls made by each
NumCallers == 2
MaxCalls == 2
\* workers of a parallel wrapper's pool (the "workers" argument)
PoolWorkers == 1
\* inputs sent to a parallel wrapper
MaxWork == 3
\* calls made on a ParamHolder
MaxOps == 3

\* ------------------------------------------------------------- constants
\* type Strictness (iota)
Moderate == 0
Lax == 1
Strict == 2

Strictnesses == {Moderate, Lax, Strict}

\* values a caller can submit: a string, an int, an explicit nil
Values == {"s", "i", "nil"}
NoVal == "none"
NoErr == "nil"

\* goroutines
Caller == "caller"
Collector == "collector"
Disperser == "disperser"
LinkNames == <<"link1", "link2">>
\* collectors of the sibling chains of a MultiChain
SiblingNames == <<"sibling1", "sibling2">>

\* link implementations used as chain members
\*   str         StrLink          Process(string): emits its input
\*   procErr     ProcessErrorLink Process(string): returns an error
\*   errInit     ErrorLink errorAt=initialize
\*   errComplete ErrorLink errorAt=complete
\*   params      ParamsLink with its required parameter unbound
LinkKinds == {"str", "procErr", "errInit", "errComplete", "params"}

\* chains under study: every pair with at most one faulty member
LinkConfigs ==
  { <<"str", "str">>, <<"str", "procErr">>, <<"procErr", "str">>,
    <<"errInit", "str">>, <<"str", "errInit">>,
    <<"errComplete", "str">>, <<"str", "errComplete">>,
    <<"params", "str">>, <<"str", "params">> }

\* sibling chains of the MultiChains under study
MultiConfigs ==
  { <<"str", "str">>, <<"str", "procErr">>, <<"procErr", "str">>,
    <<"str", "errComplete">> }

\* a parameter's name and its shortcode, the two keys an argument for it
\* can be given under
ParamName == "p"
ShortCode == "s"
PhKeys == {ParamName, ShortCode}

\* argument values <<Go type, text>>: the strings "a" and "1", the int 1
ArgValues == {<<"string", "a">>, <<"string", "1">>, <<"int", "1">>}
\* no value (nil)
NoArg == <<"none", "">>

InitializeFails(k) == k = "errInit"
\* a Complete whose error is dropped
CompleteNeverFails(k) == FALSE
CompleteFails(k) == k = "errComplete"
ValidateFails(k) == k = "params"

\* Convert(input, type of Process's parameter): nil is a debug error, a
\* value of another non-struct type is a conversion error; `any` accepts
\* every non-nil value.
Convert(k, v) ==
  IF v = "nil" THEN "debug"
  ELSE IF k \in {"errInit", "errComplete", "parallel"} THEN "ok"
  ELSE IF v = "s" THEN "ok" ELSE "conversion"

\* chain.Process(link, item): the class of the result of one item
\*   emit: Process ran and sent one value on the link's channel
\*   drop: Process ran and returned nil without sending
ProcessOutcome(k, v) ==
  IF Convert(k, v) # "ok" THEN Convert(k, v)
  ELSE CASE k = "str" -> "emit"
         [] k = "procErr" -> "process"
         [] OTHER -> "drop"

\* shouldBreak without the handleDebugError case
ShouldBreakOnDebug(s, class) ==
  IF class \notin {"process", "conversion", "debug"} THEN FALSE
  ELSE IF s = Lax THEN FALSE
  ELSE IF s = Moderate /\ class = "conversion" THEN FALSE
  ELSE TRUE

\* shouldBreak without the Lax case
ShouldBreakIgnoringLax(s, class) ==
  IF class \notin {"process", "conversion"} THEN FALSE
  ELSE IF s = Moderate /\ class = "conversion" THEN FALSE
  ELSE TRUE

ShouldBreak(s, class) ==
  IF class \notin {"process", "conversion"} THEN FALSE
  ELSE IF s = Lax THEN FALSE
  ELSE IF s = Moderate /\ class = "conversion" THEN FALSE
  ELSE TRUE

VARIABLES
  \* configuration, fixed at construction
  topo,          \* "chain": NewChain(links...); "multi": NewMulti of one
                 \* single-link chain per entry of links
  links,         \* kinds of the member links, in order
  strictness,
  outputters,    \* number of configured outputters
  fault,         \* "none", "collision" (SetParams fails), "config" (a Config fails)
  \* construction
  built,         \* the chains constructed so far: kind, links, err
  claimed,       \* the links (leaf links and chains) whose claimed flag is set
  \* a link run on its own (Base.start, Base.Invoke, a pool worker)
  inv,
  \* several goroutines calling into one unstarted chain
  st,
  \* the values travelling through a chain, a MultiChain or a Hopper
  fl,
  \* a parallel wrapper, its worker pool and the work items
  pl,
  \* a ParamHolder: declared parameters, bound and pending arguments
  ph,
  \* the holders of a composite and of its links while it starts
  ca,
  \* BaseChain / Base fields
  err, started, isClosed, errLock, wgOut, outputItems,
  chanInClosed, chClosed, insClosed, outClosed,
  sibItems, sibClosed,   \* outputItems and channel of each sibling chain
  \* goroutine state
  pc, hErr, hRet, val, ignoreRemaining, dispIdx, collIdx,
  \* caller
  op, sends, closes, waited,
  \* observations
  closeCount, panicked, processed, hits, hookFailed, killReported,
  lateProcess,   \* a link called Process after it killed the chain
  discarded,     \* the links that received an input and skipped it
  sendAfterKill, sendAfterClose, sendResult, sendTaken,
  outCompleted, delivered, errHistory

\* state of the harnesses studied apart from the chain
auxVars == <<inv, st, fl, pl, ph, ca>>
cfgVars == <<topo, links, strictness, outputters, fault, built, claimed,
             auxVars>>
chainVars == <<err, started, isClosed, errLock, wgOut, outputItems>>
chanVars == <<chanInClosed, chClosed, insClosed, outClosed, closeCount>>
procVars == <<pc, hErr, hRet, val>>
linkVars == <<ignoreRemaining, dispIdx, collIdx>>
sibVars == <<sibItems, sibClosed>>
callerVars == <<op, sends, closes, waited>>
sendObs == <<sendAfterKill, sendAfterClose, sendResult, sendTaken>>
linkObs == <<processed, hits, hookFailed, killReported, lateProcess,
            discarded>>
outObs == <<outCompleted, delivered>>

vars == <<cfgVars, chainVars, chanVars, procVars, linkVars, sibVars,
          callerVars, sendObs, linkObs, outObs, panicked, errHistory>>

\* every chain under study has one member per entry of LinkNames
N == Len(LinkNames)
LinkIds == 1..N
L(i) == LinkNames[i]
K(i) == SiblingNames[i]
Procs == {Caller, Collector, Disperser}
           \cup {LinkNames[i] : i \in 1..Len(LinkNames)}
           \cup {SiblingNames[i] : i \in 1..Len(SiblingNames)}

\* ------------------------------------------------------------------ Init
\* the fields of a chain that has not been started, and of its goroutines
InitRun ==
  /\ chanInClosed = (err # NoErr)
  /\ closeCount = IF err # NoErr THEN 1 ELSE 0
  /\ started = FALSE
  /\ isClosed = FALSE
  /\ errLock = "free"
  /\ wgOut = 0
  /\ outputItems = <<>>
  /\ chClosed = [i \in 1..Len(LinkNames) |-> FALSE]
  /\ insClosed = FALSE
  /\ outClosed = FALSE
  /\ sibItems = [i \in 1..Len(SiblingNames) |-> <<>>]
  /\ sibClosed = [i \in 1..Len(SiblingNames) |-> FALSE]
  /\ pc = [p \in Procs |-> IF p = Caller THEN "idle" ELSE "off"]
  /\ hErr = [p \in Procs |-> NoErr]
  /\ hRet = [p \in Procs |-> "none"]
  /\ val = [p \in Procs |-> NoVal]
  /\ ignoreRemaining = [i \in 1..Len(LinkNames) |-> FALSE]
  /\ dispIdx = 1
  /\ collIdx = 1
  /\ op = "none"
  /\ sends = 0
  /\ closes = 0
  /\ waited = FALSE
  /\ panicked = FALSE
  /\ processed = {}
  /\ hits = {}
  /\ hookFailed = FALSE
  /\ killReported = FALSE
  /\ lateProcess = FALSE
  /\ discarded = {}
  /\ sendAfterKill = FALSE
  /\ sendAfterClose = FALSE
  /\ sendResult = "none"
  /\ sendTaken = FALSE
  /\ outCompleted = 0
  /\ delivered = <<>>
  /\ errHistory = IF err # NoErr THEN <<err>> ELSE <<>>

\* a link that was constructed (NewBase) and not run
InvIdle ==
  [mode |-> "none", kind |-> "str", input |-> <<>>, pc |-> "off",
   hold |-> NoVal, rpc |-> "off", closed |-> FALSE, closeCount |-> 0,
   ignoreRemaining |-> FALSE, completed |-> FALSE, out |-> <<>>, ret |-> "none",
   results |-> <<>>, called |-> 0, sentOnClosed |-> FALSE,
   given |-> <<>>, calls |-> <<>>, handled |-> <<>>, own |-> Moderate]

\* a chain nobody has called yet
StIdle ==
  [started |-> FALSE, flips |-> 0, starts |-> 0, collectors |-> 0,
   chanInClosed |-> FALSE, outCloses |-> 0,
   isClosed |-> FALSE, err |-> FALSE, lock |-> 0,
   delivered |-> 0, rejected |-> 0, sentOnClosed |-> FALSE,
   pc |-> [c \in 1..NumCallers |-> "idle"],
   op |-> [c \in 1..NumCallers |-> "none"],
   calls |-> [c \in 1..NumCallers |-> 0]]

\* a composite nobody has sent to: nothing held, buffered or received
FlIdle ==
  [topo |-> "none",
   plan |-> [c \in 1..Len(LinkNames) |-> 0],
   sent |-> [c \in 1..Len(LinkNames) |-> 0],
   inClosed |-> [c \in 1..Len(LinkNames) |-> FALSE],
   dval |-> <<>>, didx |-> 1, insClosed |-> FALSE,
   hold |-> [i \in 1..Len(LinkNames) |-> <<>>],
   lclosed |-> [i \in 1..Len(LinkNames) |-> FALSE],
   got |-> [i \in 1..Len(LinkNames) |-> <<>>],
   sibItems |-> [i \in 1..Len(LinkNames) |-> <<>>],
   sclosed |-> [i \in 1..Len(LinkNames) |-> FALSE],
   cidx |-> 1, cpc |-> "loop", outputItems |-> <<>>,
   outs |-> <<>>, offered |-> <<>>, accepted |-> <<>>, reported |-> {},
   badOut |-> 0, completeCalls |-> <<>>, err |-> "nil",
   outClosed |-> FALSE, received |-> <<>>]

\* a parallel wrapper that was constructed (Parallelize) and not started
PlIdle ==
  [kind |-> "none", input |-> <<>>, next |-> 1, lpc |-> "off",
   ignoring |-> FALSE, err |-> "nil",
   workChan |-> <<>>, chanClosed |-> FALSE,
   witem |-> [w \in 0..PoolWorkers |-> 0],
   wpend |-> [w \in 0..PoolWorkers |-> <<>>],
   wexit |-> [w \in 1..PoolWorkers |-> FALSE],
   ran |-> [j \in 1..MaxWork |-> "none"],
   called |-> [j \in 1..MaxWork |-> 0],
   results |-> [j \in 1..MaxWork |-> <<>>],
   werr |-> [j \in 1..MaxWork |-> "nil"],
   out |-> <<>>, closed |-> FALSE, sentOnClosed |-> FALSE,
   panicked |-> FALSE]

\* NewParamHolder(): no parameter declared, no argument pending, and no
\* call made on it yet
PhIdle ==
  [params |-> <<>>, pending |-> [k \in PhKeys |-> NoArg],
   log |-> <<>>, errs |-> <<>>]

\* no composite is under study: no holder has a parameter
CaIdle ==
  [topo |-> "none", explicit |-> [i \in 1..Len(LinkNames) |-> FALSE],
   chainArg |-> FALSE,
   links |-> [i \in 1..Len(LinkNames) |-> PhIdle],
   outer |-> PhIdle,
   inner |-> [j \in 1..Len(LinkNames) |-> PhIdle],
   pc |-> "off", idx |-> 1,
   ipc |-> [j \in 1..Len(LinkNames) |-> "off"],
   iidx |-> [j \in 1..Len(LinkNames) |-> 1]]

\* no harness is in use
AuxIdle ==
  /\ inv = InvIdle /\ st = StIdle /\ fl = FlIdle /\ pl = PlIdle
  /\ ph = PhIdle /\ ca = CaIdle

\* State after NewChain(links...) / NewMulti(links...) and the With*
\* builders.  construction error "inUse": a member was already claimed, so
\* the constructor ran handleError, which closed chanIn.  A scenario has
\* one fault at most: a faulty member, or healthy members and a fault of
\* the chain itself (claimed member, colliding parameters, failing Config,
\* or a claimed member together with a failing Config).
Init ==
  /\ built = <<>>
  /\ claimed = {}
  /\ topo \in {"chain", "multi"}
  /\ outputters \in {0, 1}
  /\ \/ /\ links \in (IF topo = "chain" THEN LinkConfigs ELSE MultiConfigs)
        /\ strictness \in Strictnesses
        /\ fault = "none"
        /\ err = NoErr
     \/ /\ links = <<"str", "str">>
        /\ strictness = Moderate
        /\ fault \in {"none", "collision", "config"}
        /\ err \in {NoErr, "inUse"}
        /\ fault # "none" \/ err # NoErr
  /\ InitRun
  /\ AuxIdle



\* ----------------------------------------------------------- error sink
\* close(chanIn) without the sync.Once: closing twice panics
CloseChanInEveryTime ==
  [closed |-> TRUE, count |-> closeCount + 1, panic |-> chanInClosed]

\* closeChanInOnce: sync.Once around close(chanIn)
CloseChanInOnce ==
  [closed |-> TRUE,
   count |-> IF chanInClosed THEN closeCount ELSE closeCount + 1,
   panic |-> FALSE]

\* an error sink that never fills its slot
DropsError(cur, e) == cur

\* the slot keeps the first error
StoreError(cur, e) == IF cur # NoErr THEN cur ELSE e

\* Base.WithConfigs: a failing Config is written to b.err directly
ApplyConfigs(cur, f) == IF f = "config" THEN "config" ELSE cur

Record(old, new) == IF new # old THEN Append(errHistory, new) ELSE errHistory

\* a goroutine p calls errHandler(e) and continues at ret afterwards
CallHandleError(p, e, ret) ==
  /\ pc' = [pc EXCEPT ![p] = "h_check"]
  /\ hErr' = [hErr EXCEPT ![p] = e]
  /\ hRet' = [hRet EXCEPT ![p] = ret]

\* handleError: if c.hasStarted() { util.EmptyChannel(c.chanIn) }
HandleErrorCheck(p) ==
  /\ pc[p] = "h_check"
  /\ pc' = [pc EXCEPT ![p] = IF started THEN "h_drain" ELSE "h_lock"]
  /\ UNCHANGED <<cfgVars, chainVars, chanVars, hErr, hRet, val, linkVars, sibVars,
                 callerVars, sendObs, linkObs, outObs, panicked, errHistory>>

\* EmptyChannel returns once chanIn is closed; then errLock.Lock();
\* closeChanInOnce(); if c.err == nil { c.err = err }
HandleErrorStore(p) ==
  /\ \/ pc[p] = "h_lock"
     \/ pc[p] = "h_drain" /\ chanInClosed
  /\ errLock = "free"
  /\ LET c == CloseChanInOnce IN
       /\ chanInClosed' = c.closed
       /\ closeCount' = c.count
       /\ panicked' = (panicked \/ c.panic)
  /\ err' = StoreError(err, hErr[p])
  /\ errHistory' = Record(err, err')
  /\ pc' = [pc EXCEPT ![p] = hRet[p]]
  /\ hErr' = [hErr EXCEPT ![p] = NoErr]
  /\ hRet' = [hRet EXCEPT ![p] = "none"]
  /\ UNCHANGED <<cfgVars, started, isClosed, errLock, wgOut, outputItems,
                 chClosed, insClosed, outClosed, val, linkVars, sibVars, callerVars,
                 sendObs, linkObs, outObs>>

\* ---------------------------------------------------------------- links
\* the channel link i ranges over: chanIn or the previous link's channel
\* in a chain, chanIns[i] in a MultiChain
InputClosed(i) ==
  IF topo = "chain"
  THEN (IF i = 1 THEN chanInClosed ELSE chClosed[i - 1])
  ELSE insClosed

\* a processLoop whose flag is never consulted
SkipsNothing(ignoring) == FALSE

\* processLoop: if ignoreRemaining { continue }
SkipsInput(ignoring) == ignoring

\* processLoop receives v from sender s (which continues at spc holding
\* sval) and runs process(v): Process, shouldBreak, errHandler
LinkTakes(i, v, s, spc, sval) ==
  LET out == IF SkipsInput(ignoreRemaining[i]) THEN "ignore"
             ELSE ProcessOutcome(links[i], v)
      brk == ShouldBreak(strictness, out)
  IN /\ pc[L(i)] = "loop"
     /\ pc' = [pc EXCEPT ![s] = spc,
                         ![L(i)] = IF out = "emit" THEN "emit"
                                   ELSE IF brk THEN "h_check" ELSE "loop"]
     /\ val' = [val EXCEPT ![s] = sval,
                           ![L(i)] = IF out = "emit" THEN v ELSE NoVal]
     /\ hErr' = IF brk THEN [hErr EXCEPT ![L(i)] = out] ELSE hErr
     /\ hRet' = IF brk THEN [hRet EXCEPT ![L(i)] = "loop"] ELSE hRet
     /\ ignoreRemaining' = IF brk THEN [ignoreRemaining EXCEPT ![i] = TRUE]
                           ELSE ignoreRemaining
     /\ processed' = IF out \in {"emit", "drop", "process"}
                     THEN processed \cup {i} ELSE processed
     /\ hits' = IF out \in {"process", "conversion"} THEN hits \cup {out} ELSE hits
     /\ killReported' = (killReported \/ brk)
     /\ lateProcess' = (lateProcess \/ (ignoreRemaining[i]
                                         /\ out \in {"emit", "drop", "process"}))
     /\ discarded' = IF out = "ignore" THEN discarded \cup {i} ELSE discarded

\* Base.initialize, second half: err = b.ParamHolder.Validate(); the
\* result replaces Initialize's, and start enters processLoop when it is nil
ValidateParams(i) ==
  IF ValidateFails(links[i])
  THEN CallHandleError(L(i), "validate", "initFailed")
  ELSE /\ pc' = [pc EXCEPT ![L(i)] = "loop"]
       /\ UNCHANGED <<hErr, hRet>>

\* Base.initialize, first half: b.super.Initialize()
LinkInitialize(i) ==
  /\ pc[L(i)] = "init"
  /\ IF InitializeFails(links[i])
     THEN /\ CallHandleError(L(i), "init", "validate")
          /\ hookFailed' = TRUE
     ELSE /\ ValidateParams(i)
          /\ UNCHANGED hookFailed
  /\ UNCHANGED <<cfgVars, chainVars, chanVars, val, linkVars, sibVars, callerVars,
                 sendObs, processed, hits, killReported, lateProcess,
                 discarded, outObs, panicked, errHistory>>

\* Base.initialize, second half, after a failed Initialize was reported
LinkValidate(i) ==
  /\ pc[L(i)] = "validate"
  /\ ValidateParams(i)
  /\ UNCHANGED <<cfgVars, chainVars, chanVars, val, linkVars, sibVars, callerVars,
                 sendObs, linkObs, outObs, panicked, errHistory>>

\* Base.start: if err != nil { errHandler(err); return }
LinkInitFailed(i) ==
  /\ pc[L(i)] = "initFailed"
  /\ CallHandleError(L(i), "validate", "complete")
  /\ UNCHANGED <<cfgVars, chainVars, chanVars, val, linkVars, sibVars, callerVars,
                 sendObs, linkObs, outObs, panicked, errHistory>>

\* for v := range prevChannel ends
LinkInputClosed(i) ==
  /\ pc[L(i)] = "loop"
  /\ InputClosed(i)
  /\ pc' = [pc EXCEPT ![L(i)] = "complete"]
  /\ UNCHANGED <<cfgVars, chainVars, chanVars, hErr, hRet, val, linkVars, sibVars,
                 callerVars, sendObs, linkObs, outObs, panicked, errHistory>>

\* Base.cleanup: b.super.Complete(); b.Close() when it succeeded
LinkComplete(i) ==
  /\ pc[L(i)] = "complete"
  /\ IF CompleteFails(links[i])
     THEN /\ CallHandleError(L(i), "complete", "closeFailed")
          /\ hookFailed' = TRUE
          /\ UNCHANGED chClosed
     ELSE /\ pc' = [pc EXCEPT ![L(i)] = "done"]
          /\ chClosed' = [chClosed EXCEPT ![i] = TRUE]
          /\ UNCHANGED <<hErr, hRet, hookFailed>>
  /\ UNCHANGED <<cfgVars, chainVars, chanInClosed, insClosed, outClosed,
                 closeCount, val, linkVars, sibVars, callerVars, sendObs, processed,
                 hits, killReported, lateProcess, discarded, outObs, panicked,
                 errHistory>>

\* Base.cleanup after a failed Complete was reported: b.Close(); then
\* start's deferred errHandler("failed to cleanup link")
LinkCloseFailed(i) ==
  /\ pc[L(i)] = "closeFailed"
  /\ chClosed' = [chClosed EXCEPT ![i] = TRUE]
  /\ CallHandleError(L(i), "cleanup", "done")
  /\ UNCHANGED <<cfgVars, chainVars, chanInClosed, insClosed, outClosed,
                 closeCount, val, linkVars, sibVars, callerVars, sendObs, linkObs,
                 outObs, panicked, errHistory>>


\* --------------------------------------------------------------- caller
\* c.Send(v): if c.isClosed { handleError("chain is closed"); return err }
\* MultiChain.Send has no such check.
CallSend(v) ==
  /\ pc[Caller] = "idle"
  /\ sends < MaxSends
  /\ sends' = sends + 1
  /\ sendAfterKill' = killReported
  /\ sendAfterClose' = (closes > 0)
  /\ sendTaken' = FALSE
  /\ IF topo = "chain" /\ isClosed
     THEN /\ CallHandleError(Caller, "closed", "idle")
          /\ sendResult' = "closed"
          /\ UNCHANGED <<val, op>>
     ELSE /\ pc' = [pc EXCEPT ![Caller] = "startIf"]
          /\ val' = [val EXCEPT ![Caller] = v]
          /\ op' = "send"
          /\ sendResult' = "pending"
          /\ UNCHANGED <<hErr, hRet>>
  /\ UNCHANGED <<cfgVars, chainVars, chanVars, linkVars, sibVars, closes, waited,
                 linkObs, outObs, panicked, errHistory>>

CallClose ==
  /\ pc[Caller] = "idle"
  /\ closes < MaxCloses
  /\ pc' = [pc EXCEPT ![Caller] = "startIf"]
  /\ op' = "close"
  /\ UNCHANGED <<cfgVars, chainVars, chanVars, hErr, hRet, val, linkVars, sibVars,
                 sends, closes, waited, sendObs, linkObs, outObs, panicked,
                 errHistory>>

CallWait ==
  /\ pc[Caller] = "idle"
  /\ ~waited
  /\ pc' = [pc EXCEPT ![Caller] = "startIf"]
  /\ op' = "wait"
  /\ UNCHANGED <<cfgVars, chainVars, chanVars, hErr, hRet, val, linkVars, sibVars,
                 sends, closes, waited, sendObs, linkObs, outObs, panicked,
                 errHistory>>

\* startIfUnstarted: if !c.hasStarted() { c.start(c.chanIn, c.handleError,
\* c.strictness) }.  start: resetParams (SetParams, then Base.WithConfigs),
\* outputters, go child.start for every child, wgOut.Add(1), go
\* collectOutput; the MultiChain also starts its disperser.
StartIfUnstarted ==
  /\ pc[Caller] = "startIf"
  /\ IF started
     THEN /\ pc' = [pc EXCEPT ![Caller] = "setStarted"]
          /\ UNCHANGED <<err, wgOut, chanInClosed, closeCount, panicked,
                         errHistory>>
     ELSE IF fault = "collision"
     THEN \* errHandler runs in the caller before any goroutine exists
          /\ LET c == CloseChanInOnce IN
               /\ chanInClosed' = c.closed
               /\ closeCount' = c.count
               /\ panicked' = (panicked \/ c.panic)
          /\ err' = StoreError(err, "params")
          /\ errHistory' = Record(err, err')
          /\ pc' = [pc EXCEPT ![Caller] = "setStarted"]
          /\ UNCHANGED wgOut
     ELSE /\ err' = ApplyConfigs(err, fault)
          /\ errHistory' = Record(err, err')
          /\ wgOut' = 1
          /\ pc' = [p \in Procs |->
                      IF p = Caller THEN "setStarted"
                      ELSE IF p = Collector THEN "loop"
                      ELSE IF p = Disperser
                           THEN (IF topo = "multi" THEN "loop" ELSE "off")
                      ELSE IF \E i \in LinkIds : p = L(i) THEN "init"
                      ELSE IF \E i \in LinkIds : p = K(i)
                           THEN (IF topo = "multi" THEN "loop" ELSE "off")
                      ELSE "off"]
          /\ UNCHANGED <<chanInClosed, closeCount, panicked>>
  /\ UNCHANGED <<cfgVars, started, isClosed, errLock, outputItems, chClosed,
                 insClosed, outClosed, hErr, hRet, val, linkVars, sibVars, callerVars,
                 sendObs, linkObs, outObs>>

SetStarted ==
  /\ pc[Caller] = "setStarted"
  /\ started' = TRUE
  /\ pc' = [pc EXCEPT ![Caller] =
              CASE op = "send" -> "s_lock"
                [] op = "close" -> "c_close"
                [] OTHER -> "w_check"]
  /\ UNCHANGED <<cfgVars, err, isClosed, errLock, wgOut, outputItems,
                 chanVars, hErr, hRet, val, linkVars, sibVars, callerVars, sendObs,
                 linkObs, outObs, panicked, errHistory>>

\* Send: errLock.Lock(); if getError() != nil return "chain is in error state"
SendLock ==
  /\ pc[Caller] = "s_lock"
  /\ errLock = "free"
  /\ IF err # NoErr
     THEN /\ pc' = [pc EXCEPT ![Caller] = "idle"]
          /\ val' = [val EXCEPT ![Caller] = NoVal]
          /\ sendResult' = "errState"
          /\ UNCHANGED errLock
     ELSE /\ pc' = [pc EXCEPT ![Caller] = "s_send"]
          /\ errLock' = Caller
          /\ UNCHANGED <<val, sendResult>>
  /\ UNCHANGED <<cfgVars, err, started, isClosed, wgOut, outputItems,
                 chanVars, hErr, hRet, linkVars, sibVars, callerVars,
                 sendAfterKill, sendAfterClose, sendTaken, linkObs, outObs,
                 panicked, errHistory>>

\* c.chanIn <- v on a closed channel panics: the program ends, and every
\* goroutine still running with it
SendOnClosed ==
  /\ pc[Caller] = "s_send"
  /\ chanInClosed
  /\ panicked' = TRUE
  /\ pc' = [p \in Procs |->
              IF pc[p] \in {"off", "done"} THEN pc[p] ELSE "panic"]
  /\ UNCHANGED <<cfgVars, chainVars, chanVars, hErr, hRet, val, linkVars,
                 sibVars, callerVars, sendObs, linkObs, outObs, errHistory>>

\* c.chanIn <- v received by the head link's processLoop (Chain)
SendToHead ==
  /\ pc[Caller] = "s_send"
  /\ ~chanInClosed
  /\ topo = "chain"
  /\ LinkTakes(1, val[Caller], Caller, "idle", NoVal)
  /\ errLock' = "free"
  /\ sendResult' = "ok"
  /\ sendTaken' = TRUE
  /\ UNCHANGED <<cfgVars, err, started, isClosed, wgOut, outputItems,
                 chanVars, dispIdx, collIdx, sibVars, callerVars,
                 sendAfterKill, sendAfterClose, hookFailed, outObs, panicked,
                 errHistory>>

\* c.chanIn <- v received by an EmptyChannel(c.chanIn) of handleError
SendToDrain(p) ==
  /\ pc[Caller] = "s_send"
  /\ ~chanInClosed
  /\ pc[p] = "h_drain"
  /\ pc' = [pc EXCEPT ![Caller] = "idle"]
  /\ val' = [val EXCEPT ![Caller] = NoVal]
  /\ errLock' = "free"
  /\ sendResult' = "ok"
  /\ UNCHANGED <<cfgVars, err, started, isClosed, wgOut, outputItems,
                 chanVars, hErr, hRet, linkVars, sibVars, callerVars,
                 sendAfterKill, sendAfterClose, sendTaken, linkObs, outObs,
                 panicked, errHistory>>

\* m.chanIn <- v received by startDisperser (MultiChain)
SendToDisperser ==
  /\ pc[Caller] = "s_send"
  /\ ~chanInClosed
  /\ topo = "multi"
  /\ pc[Disperser] = "loop"
  /\ pc' = [pc EXCEPT ![Caller] = "idle", ![Disperser] = "disperse"]
  /\ val' = [val EXCEPT ![Caller] = NoVal, ![Disperser] = val[Caller]]
  /\ dispIdx' = 1
  /\ errLock' = "free"
  /\ sendResult' = "ok"
  /\ sendTaken' = TRUE
  /\ UNCHANGED <<cfgVars, err, started, isClosed, wgOut, outputItems,
                 chanVars, hErr, hRet, ignoreRemaining, collIdx, sibVars,
                 callerVars, sendAfterKill, sendAfterClose, linkObs, outObs,
                 panicked, errHistory>>

\* Close: closeChanInOnce(); c.isClosed = true (MultiChain.Close leaves
\* isClosed alone)
DoClose ==
  /\ pc[Caller] = "c_close"
  /\ LET c == CloseChanInOnce IN
       /\ chanInClosed' = c.closed
       /\ closeCount' = c.count
       /\ panicked' = (panicked \/ c.panic)
  /\ isClosed' = IF topo = "chain" THEN TRUE ELSE isClosed
  /\ closes' = closes + 1
  /\ pc' = [pc EXCEPT ![Caller] = "idle"]
  /\ UNCHANGED <<cfgVars, err, started, errLock, wgOut, outputItems,
                 chClosed, insClosed, outClosed, hErr, hRet, val, linkVars, sibVars,
                 op, sends, waited, sendObs, linkObs, outObs, errHistory>>

\* Wait without the EmptyChannel of the tail
WaitNeverDrains(n) == "w_wg"

\* Wait: if len(c.outputters) == 0 { util.EmptyChannel(c.channel()) }
WaitDrainsTail(n) == IF n = 0 THEN "w_drain" ELSE "w_wg"

\* Wait: read the error under errLock; return at once when it is set
WaitCheck ==
  /\ pc[Caller] = "w_check"
  /\ errLock = "free"
  /\ IF err # NoErr
     THEN /\ pc' = [pc EXCEPT ![Caller] = "idle"]
          /\ waited' = TRUE
     ELSE /\ pc' = [pc EXCEPT ![Caller] = WaitDrainsTail(outputters)]
          /\ UNCHANGED waited
  /\ UNCHANGED <<cfgVars, chainVars, chanVars, hErr, hRet, val, linkVars, sibVars,
                 op, sends, closes, sendObs, linkObs, outObs, panicked,
                 errHistory>>

\* util.EmptyChannel(c.channel()) ends when the collector closes it
WaitDrained ==
  /\ pc[Caller] = "w_drain"
  /\ outClosed
  /\ pc' = [pc EXCEPT ![Caller] = "w_wg"]
  /\ UNCHANGED <<cfgVars, chainVars, chanVars, hErr, hRet, val, linkVars, sibVars,
                 callerVars, sendObs, linkObs, outObs, panicked, errHistory>>

\* c.wgOut.Wait()
WaitDone ==
  /\ pc[Caller] = "w_wg"
  /\ wgOut = 0
  /\ pc' = [pc EXCEPT ![Caller] = "idle"]
  /\ waited' = TRUE
  /\ UNCHANGED <<cfgVars, chainVars, chanVars, hErr, hRet, val, linkVars, sibVars,
                 op, sends, closes, sendObs, linkObs, outObs, panicked,
                 errHistory>>


\* ------------------------------------------------------------ collector
\* The collector receives v from sender s (a link or a sibling chain's
\* collector, which continues its loop) and runs c.output(v): without
\* outputters outputToSelf appends it to outputItems, otherwise every
\* outputter is offered the value.  Every value that reaches a collector
\* passed a link's Convert, so outputToSelf's own Convert accepts it.
CollectorTakes(v, s) ==
  /\ pc[Collector] = "loop"
  /\ val' = [val EXCEPT ![s] = NoVal]
  /\ pc' = [pc EXCEPT ![s] = "loop"]
  /\ UNCHANGED <<hErr, hRet>>
  /\ IF outputters = 0
     THEN /\ outputItems' = Append(outputItems, v)
          /\ UNCHANGED delivered
     ELSE /\ delivered' = Append(delivered, v)
          /\ UNCHANGED outputItems

\* b.ch <- v inside Process: received by the next link (Chain)
EmitToNext(i) ==
  /\ topo = "chain"
  /\ i < N
  /\ pc[L(i)] = "emit"
  /\ LinkTakes(i + 1, val[L(i)], L(i), "loop", NoVal)
  /\ UNCHANGED <<cfgVars, chainVars, chanVars, dispIdx, collIdx, sibVars,
                 callerVars, sendObs, hookFailed, outObs, panicked,
                 errHistory>>

\* b.ch <- v inside Process of the last link: received by the collector
EmitToCollector(i) ==
  /\ topo = "chain"
  /\ i = N
  /\ pc[L(i)] = "emit"
  /\ CollectorTakes(val[L(i)], L(i))
  /\ UNCHANGED <<cfgVars, err, started, isClosed, errLock, wgOut, chanVars,
                 linkVars, sibVars, callerVars, sendObs, linkObs,
                 outCompleted, panicked, errHistory>>

\* b.ch <- v inside Process of a sibling chain's link: received by that
\* chain's own collector, which has no outputters and appends the value
\* to its outputItems (outputToSelf)
EmitToSibling(i) ==
  /\ topo = "multi"
  /\ pc[L(i)] = "emit"
  /\ pc[K(i)] = "loop"
  /\ ~chClosed[i]
  /\ sibItems' = [sibItems EXCEPT ![i] = Append(@, val[L(i)])]
  /\ pc' = [pc EXCEPT ![L(i)] = "loop"]
  /\ val' = [val EXCEPT ![L(i)] = NoVal]
  /\ UNCHANGED <<cfgVars, chainVars, chanVars, hErr, hRet, linkVars,
                 sibClosed, callerVars, sendObs, linkObs, outObs, panicked,
                 errHistory>>

\* a sibling chain's collector after its link's channel closed:
\* flushOutputItems sends each item on the sibling's channel, where the
\* MultiChain's collector receives it while it ranges over this child
SiblingFlush(i) ==
  /\ topo = "multi"
  /\ pc[K(i)] = "loop"
  /\ chClosed[i]
  /\ sibItems[i] # <<>>
  /\ collIdx = i
  /\ CollectorTakes(Head(sibItems[i]), K(i))
  /\ sibItems' = [sibItems EXCEPT ![i] = Tail(@)]
  /\ UNCHANGED <<cfgVars, err, started, isClosed, errLock, wgOut, chanVars,
                 linkVars, sibClosed, callerVars, sendObs, linkObs,
                 outCompleted, panicked, errHistory>>

\* ... then close(c.channel()); closeOutputters(); c.wgOut.Done()
SiblingFinish(i) ==
  /\ topo = "multi"
  /\ pc[K(i)] = "loop"
  /\ chClosed[i]
  /\ sibItems[i] = <<>>
  /\ sibClosed' = [sibClosed EXCEPT ![i] = TRUE]
  /\ pc' = [pc EXCEPT ![K(i)] = "done"]
  /\ UNCHANGED <<cfgVars, chainVars, chanVars, hErr, hRet, val, linkVars,
                 sibItems, callerVars, sendObs, linkObs, outObs, panicked,
                 errHistory>>

\* range over the last link's channel ends (Chain); the MultiChain's
\* collector moves on to the next child, in declaration order
CollectorInputClosed ==
  /\ pc[Collector] = "loop"
  /\ IF topo = "chain"
     THEN /\ chClosed[N]
          /\ pc' = [pc EXCEPT ![Collector] = "flush"]
          /\ UNCHANGED collIdx
     ELSE /\ sibClosed[collIdx]
          /\ IF collIdx < N
             THEN /\ collIdx' = collIdx + 1
                  /\ UNCHANGED pc
             ELSE /\ pc' = [pc EXCEPT ![Collector] = "flush"]
                  /\ UNCHANGED collIdx
  /\ UNCHANGED <<cfgVars, chainVars, chanVars, hErr, hRet, val,
                 ignoreRemaining, dispIdx, sibVars, callerVars, sendObs,
                 linkObs, outObs, panicked, errHistory>>

\* flushOutputItems: c.channel() <- item, received by Wait's EmptyChannel
FlushToWait ==
  /\ pc[Collector] = "flush"
  /\ outputItems # <<>>
  /\ pc[Caller] = "w_drain"
  /\ outputItems' = Tail(outputItems)
  /\ UNCHANGED <<cfgVars, err, started, isClosed, errLock, wgOut, chanVars,
                 procVars, linkVars, sibVars, callerVars, sendObs, linkObs, outObs,
                 panicked, errHistory>>

\* the collector's deferred function once the items are flushed:
\* close(c.channel()); closeOutputters(); c.wgOut.Done()
CollectorFinish ==
  /\ pc[Collector] = "flush"
  /\ outputItems = <<>>
  /\ outClosed' = TRUE
  /\ outCompleted' = outputters
  /\ wgOut' = 0
  /\ pc' = [pc EXCEPT ![Collector] = "done"]
  /\ UNCHANGED <<cfgVars, err, started, isClosed, errLock, outputItems,
                 chanInClosed, chClosed, insClosed, closeCount, hErr, hRet,
                 val, linkVars, sibVars, callerVars, sendObs, linkObs, delivered,
                 panicked, errHistory>>

\* ------------------------------------------------------------ disperser
\* disperseInput: chanIn <- input for every sibling, in order
DisperseToChild ==
  /\ pc[Disperser] = "disperse"
  /\ LinkTakes(dispIdx, val[Disperser], Disperser,
               IF dispIdx < N THEN "disperse" ELSE "loop",
               IF dispIdx < N THEN val[Disperser] ELSE NoVal)
  /\ dispIdx' = IF dispIdx < N THEN dispIdx + 1 ELSE 1
  /\ UNCHANGED <<cfgVars, chainVars, chanVars, collIdx, sibVars, callerVars,
                 sendObs, hookFailed, outObs, panicked, errHistory>>

\* range prevChan ends: the deferred loop closes every chanIns[i]
DisperserInputClosed ==
  /\ pc[Disperser] = "loop"
  /\ chanInClosed
  /\ insClosed' = TRUE
  /\ pc' = [pc EXCEPT ![Disperser] = "done"]
  /\ UNCHANGED <<cfgVars, chainVars, chanInClosed, chClosed, outClosed,
                 closeCount, hErr, hRet, val, linkVars, sibVars, callerVars, sendObs,
                 linkObs, outObs, panicked, errHistory>>

\* ----------------------------------------------------------------- Next
CallerStep ==
  \/ \E v \in Values : CallSend(v)
  \/ CallClose
  \/ CallWait
  \/ StartIfUnstarted
  \/ SetStarted
  \/ SendLock
  \/ SendOnClosed
  \/ SendToHead
  \/ \E p \in Procs : SendToDrain(p)
  \/ SendToDisperser
  \/ DoClose
  \/ WaitCheck
  \/ WaitDrained
  \/ WaitDone

HandleErrorStep ==
  \E p \in Procs :
    \/ HandleErrorCheck(p)
    \/ HandleErrorStore(p)

LinkStep ==
  \E i \in LinkIds :
    \/ LinkInitialize(i)
    \/ LinkValidate(i)
    \/ LinkInitFailed(i)
    \/ LinkInputClosed(i)
    \/ LinkComplete(i)
    \/ LinkCloseFailed(i)
    \/ EmitToNext(i)
    \/ EmitToCollector(i)
    \/ EmitToSibling(i)
    \/ SiblingFlush(i)
    \/ SiblingFinish(i)

CollectorStep ==
  \/ CollectorInputClosed
  \/ FlushToWait
  \/ CollectorFinish

DisperserStep ==
  \/ DisperseToChild
  \/ DisperserInputClosed

Next ==
  \/ CallerStep
  \/ HandleErrorStep
  \/ LinkStep
  \/ CollectorStep
  \/ DisperserStep

Spec == Init /\ [][Next]_vars

TypeOK ==
  /\ err \in {NoErr, "inUse", "params", "config", "init", "validate",
              "process", "conversion", "complete", "cleanup", "closed",
              "collect"}
  /\ errLock \in {"free", Caller}
  /\ sends \in 0..MaxSends
  /\ closes \in 0..MaxCloses
  /\ closeCount \in 0..1

\* ------------------------------------------- a sibling failing at start
\* MultiChains one of whose siblings holds a link that fails at start-up
\* (Initialize, or parameter validation) while the other sibling is healthy
MultiFailConfigs ==
  { <<"errInit", "str">>, <<"str", "errInit">>,
    <<"params", "str">>, <<"str", "params">> }

InitMultiFail ==
  /\ built = <<>>
  /\ claimed = {}
  /\ topo = "multi"
  /\ outputters \in {0, 1}
  /\ links \in MultiFailConfigs
  /\ strictness \in Strictnesses
  /\ fault = "none"
  /\ err = NoErr
  /\ InitRun
  /\ AuxIdle

\* the steps of Next a MultiChain of these siblings can take: its Send goes
\* to the disperser, its links emit to their sibling's collector, and no
\* Complete fails
NextMultiFail ==
  \/ \E v \in Values : CallSend(v)
  \/ CallClose
  \/ CallWait
  \/ StartIfUnstarted
  \/ SetStarted
  \/ SendLock
  \/ SendOnClosed
  \/ \E p \in Procs : SendToDrain(p)
  \/ SendToDisperser
  \/ DoClose
  \/ WaitCheck
  \/ WaitDrained
  \/ WaitDone
  \/ \E p \in Procs : HandleErrorCheck(p)
  \/ \E p \in Procs : HandleErrorStore(p)
  \/ \E i \in LinkIds : LinkInitialize(i)
  \/ \E i \in LinkIds : LinkValidate(i)
  \/ \E i \in LinkIds : LinkInitFailed(i)
  \/ \E i \in LinkIds : LinkInputClosed(i)
  \/ \E i \in LinkIds : LinkComplete(i)
  \/ \E i \in LinkIds : EmitToSibling(i)
  \/ \E i \in LinkIds : SiblingFlush(i)
  \/ \E i \in LinkIds : SiblingFinish(i)
  \/ CollectorStep
  \/ DisperserStep

SpecMultiFail == InitMultiFail /\ [][NextMultiFail]_vars

\* --------------------------------------------------------- construction
\* The objects a constructor can be handed: leaf links and the chains built
\* so far (a chain is a Link).
LeafLinks == {<<"link", i>> : i \in 1..NumLinks}
BuiltChains == {<<"chain", k>> : k \in 1..Len(built)}
Objects == LeafLinks \cup BuiltChains

\* sequences of at most n objects
RECURSIVE SeqsUpTo(_, _)
SeqsUpTo(S, n) ==
  IF n = 0 THEN {<<>>}
  ELSE LET shorter == SeqsUpTo(S, n - 1)
       IN shorter \cup {Append(q, x) : q \in shorter, x \in S}

Members(q) == {q[i] : i \in 1..Len(q)}

\* link.Error(): the error slot of a member; a leaf link built by NewBase
\* with valid parameters has none
LinkError(l) == IF l[1] = "chain" THEN built[l[2]].err ELSE NoErr

\* the constructor's loop over its links, on a chain that is not started:
\*   if link.isClaimed() { handleError("link is in-use by another chain") }
\*   link.claim()
\*   if link.Error() != nil { handleError(link.Error()) }
RECURSIVE ClaimLinks(_, _, _)
ClaimLinks(ls, cl, e) ==
  IF ls = <<>> THEN [claimed |-> cl, err |-> e]
  ELSE LET l == Head(ls)
           e1 == IF l \in cl THEN StoreError(e, "inUse") ELSE e
           e2 == IF LinkError(l) # NoErr THEN StoreError(e1, "member") ELSE e1
       IN ClaimLinks(Tail(ls), cl \cup {l}, e2)

\* some chain built earlier contains l
Contained(l) == \E k \in 1..Len(built) : l \in Members(built[k].links)

Construct(kind, ls) ==
  /\ Len(built) < MaxChains
  /\ LET r == ClaimLinks(ls, claimed, NoErr) IN
       /\ claimed' = r.claimed
       /\ built' = Append(built,
                          [kind |-> kind, links |-> ls, err |-> r.err,
                           reused |-> \E l \in Members(ls) : Contained(l)])
  /\ UNCHANGED <<topo, links, strictness, outputters, fault, auxVars,
                 chainVars, chanVars, procVars, linkVars, sibVars, callerVars,
                 sendObs, linkObs, outObs, panicked, errHistory>>

NewChain(ls) == Construct("chain", ls)

NewMulti(ls) == Construct("multi", ls)

\* BaseChain.WithAddedLinks appends the links; MultiChain.WithAddedLinks
\* reports "WithAddedLinks is not supported on MultiChain" and adds nothing
WithAddedLinks(k, l) ==
  /\ k \in 1..Len(built)
  /\ Len(built[k].links) < MaxMembers
  /\ l # <<"chain", k>>
  /\ built' = [built EXCEPT ![k] =
                 IF @.kind = "chain"
                 THEN [@ EXCEPT !.links = Append(@, l)]
                 ELSE [@ EXCEPT !.err = StoreError(@, "unsupported")]]
  /\ UNCHANGED <<topo, links, strictness, outputters, fault, claimed,
                 auxVars, chainVars, chanVars, procVars, linkVars, sibVars,
                 callerVars, sendObs, linkObs, outObs, panicked, errHistory>>

InitBuild ==
  /\ built = <<>>
  /\ claimed = {}
  /\ topo = "chain"
  /\ outputters = 0
  /\ links = <<"str", "str">>
  /\ strictness = Moderate
  /\ fault = "none"
  /\ err = NoErr
  /\ InitRun
  /\ AuxIdle

NextBuild ==
  \/ \E ls \in SeqsUpTo(Objects, MaxMembers) : NewChain(ls)
  \/ \E ls \in SeqsUpTo(Objects, MaxMembers) : NewMulti(ls)
  \/ \E k \in 1..MaxChains, l \in Objects : WithAddedLinks(k, l)

SpecBuild == InitBuild /\ [][NextBuild]_vars

\* ------------------------------------------------- a link run on its own
\* One link driven by one of the three callers of its lifecycle hooks:
\*   chain   Base.start, as a chain's goroutine; the reader of its channel
\*           is the next link or the collector, which exists from the start
\*   invoke  Base.Invoke(input...), which spawns its own reader
\*   worker  WorkerPool.processWorkItem: Invoke(input), then Complete
\* The error handler passed to Base.start is the caller's function; here it
\* returns at once.
\*   completer  CompleterLink  Process(string) returns nil; Complete sends
\*                             "completed" on the link's channel
InvModes == {"chain", "invoke", "worker"}
InvKinds == {"str", "procErr", "errInit", "completer"}

EmitsInComplete(k) == k = "completer"

\* every variable of the chain and construction models
chainAll == <<topo, links, strictness, outputters, fault, built, claimed,
              chainVars, chanVars, procVars, linkVars, sibVars, callerVars,
              sendObs, linkObs, outObs, panicked, errHistory>>

\* Base.Close: closeOnce.Do(close(b.ch))
CloseCh(r) ==
  [r EXCEPT !.closed = TRUE,
            !.closeCount = IF r.closed THEN @ ELSE @ + 1]

\* where the caller of Invoke continues: processWorkItem calls Complete
AfterInvoke(r) == IF r.mode = "worker" THEN "complete" ELSE "done"

\* b.super.Initialize()
RunInitialize ==
  /\ inv.pc = "init"
  /\ inv' =
       IF InitializeFails(inv.kind)
       THEN (IF inv.mode = "chain"
             THEN \* errHandler(err); return; the deferred cleanup runs
                  [inv EXCEPT !.pc = "complete"]
             ELSE \* return nil, "failed to initialize"
                  [inv EXCEPT !.ret = "err", !.pc = AfterInvoke(inv)])
       ELSE [inv EXCEPT !.pc = "loop", !.rpc = "run"]
  /\ UNCHANGED <<chainAll, st, fl, pl, ph, ca>>

\* a nested chain that starts its links under its own strictness
OwnStrictness(given, own) == own

\* BaseChain.start and startChild of the chain that holds the link hand
\* child.start the strictness they were given by the chain above, not the
\* one set on the chain with WithStrictness; only the outermost chain's
\* startIfUnstarted reads c.strictness
PassedStrictness(given, own) == given

\* one item of processLoop's range / of Invoke's loop: Process(b.super, item)
RunProcess ==
  /\ inv.pc = "loop"
  /\ inv.input # <<>>
  /\ LET item == Head(inv.input)
         out == IF SkipsInput(inv.ignoreRemaining) THEN "ignore"
                ELSE ProcessOutcome(inv.kind, item)
         r == [inv EXCEPT !.input = Tail(@),
                          !.calls = IF out \in {"emit", "drop", "process"}
                                    THEN Append(@, item) ELSE @]
     IN inv' =
          CASE out = "emit" -> [r EXCEPT !.pc = "emit", !.hold = item]
            [] out # "emit" /\ inv.mode = "chain" ->
                 \* Base.process: if b.shouldBreak(err) { errHandler(err) }
                 IF ShouldBreak(PassedStrictness(strictness, inv.own), out)
                 THEN [r EXCEPT !.ignoreRemaining = TRUE,
                                !.handled = Append(@, out)]
                 ELSE r
            [] out \in {"process", "conversion"} /\ inv.mode # "chain" ->
                 \* b.Close(); return nil, err
                 [CloseCh(r) EXCEPT !.ret = "err", !.pc = AfterInvoke(inv)]
            [] OTHER -> r
  /\ UNCHANGED <<chainAll, st, fl, pl, ph, ca>>

\* b.ch <- v received by the reader of the link's channel
ReaderTakes ==
  /\ inv.pc \in {"emit", "cemit"}
  /\ ~inv.closed
  /\ inv.rpc = "run"
  /\ inv' = [inv EXCEPT !.out = Append(@, inv.hold),
                        !.hold = NoVal,
                        !.pc = IF inv.pc = "emit" THEN "loop" ELSE "cret"]
  /\ UNCHANGED <<chainAll, st, fl, pl, ph, ca>>

\* b.ch <- v on the closed channel: panic
EmitOnClosed ==
  /\ inv.pc \in {"emit", "cemit"}
  /\ inv.closed
  /\ inv' = [inv EXCEPT !.sentOnClosed = TRUE, !.pc = "panic"]
  /\ UNCHANGED <<chainAll, st, fl, pl, ph, ca>>

\* the input is exhausted: processLoop returns and start's deferred
\* cleanup runs; Invoke calls b.Close() and wg.Wait()
InputDone ==
  /\ inv.pc = "loop"
  /\ inv.input = <<>>
  /\ inv' = IF inv.mode = "chain"
            THEN [inv EXCEPT !.pc = "complete"]
            ELSE [CloseCh(inv) EXCEPT !.pc = "wait"]
  /\ UNCHANGED <<chainAll, st, fl, pl, ph, ca>>

\* for v := range b.channel() ends
ReaderDone ==
  /\ inv.rpc = "run"
  /\ inv.closed
  /\ inv' = [inv EXCEPT !.rpc = "done"]
  /\ UNCHANGED <<chainAll, st, fl, pl, ph, ca>>

\* wg.Wait(); return output, nil
InvokeReturns ==
  /\ inv.pc = "wait"
  /\ inv.rpc = "done"
  /\ inv' = [inv EXCEPT !.ret = "ok", !.pc = AfterInvoke(inv)]
  /\ UNCHANGED <<chainAll, st, fl, pl, ph, ca>>

\* Complete has returned: Base.cleanup closes the channel,
\* processWorkItem goes on to the callback
CompleteDone(r) ==
  IF r.mode = "chain"
  THEN [CloseCh(r) EXCEPT !.completed = TRUE, !.pc = "done"]
  ELSE [r EXCEPT !.completed = TRUE, !.pc = "callback"]

\* b.super.Complete() / worker.Complete()
RunComplete ==
  /\ inv.pc = "complete"
  /\ inv' = IF EmitsInComplete(inv.kind)
            THEN [inv EXCEPT !.pc = "cemit", !.hold = "completed"]
            ELSE CompleteDone(inv)
  /\ UNCHANGED <<chainAll, st, fl, pl, ph, ca>>

\* Complete returns after its Send was received
CompleteReturns ==
  /\ inv.pc = "cret"
  /\ inv' = CompleteDone(inv)
  /\ UNCHANGED <<chainAll, st, fl, pl, ph, ca>>

\* workItem.callback(results), or callback([]any{}) when Invoke failed
WorkerCallback ==
  /\ inv.pc = "callback"
  /\ inv' = [inv EXCEPT !.results = IF inv.ret = "ok" THEN inv.out ELSE <<>>,
                        !.called = @ + 1,
                        !.pc = "done"]
  /\ UNCHANGED <<chainAll, st, fl, pl, ph, ca>>

\* the link, its caller and the items it is given; a worker is handed the
\* one input of its work item
InitLink ==
  /\ built = <<>>
  /\ claimed = {}
  /\ topo = "chain"
  /\ outputters = 0
  /\ links = <<"str", "str">>
  /\ fault = "none"
  /\ err = NoErr
  /\ InitRun
  /\ \E m \in InvModes, k \in InvKinds, in \in SeqsUpTo(Values, MaxItems),
        o \in Strictnesses :
       /\ m = "worker" => Len(in) = 1
       /\ m # "chain" => o = Moderate
       /\ inv = [InvIdle EXCEPT !.mode = m, !.kind = k, !.input = in,
                                !.given = in, !.own = o,
                                !.pc = "init",
                                !.rpc = IF m = "chain" THEN "run" ELSE "off"]
  /\ strictness \in (IF inv.mode = "chain" THEN Strictnesses ELSE {Moderate})
  /\ st = StIdle
  /\ fl = FlIdle
  /\ pl = PlIdle
  /\ ph = PhIdle
  /\ ca = CaIdle

NextLink ==
  \/ RunInitialize
  \/ RunProcess
  \/ ReaderTakes
  \/ EmitOnClosed
  \/ InputDone
  \/ ReaderDone
  \/ InvokeReturns
  \/ RunComplete
  \/ CompleteReturns
  \/ WorkerCallback

SpecLink == InitLink /\ [][NextLink]_vars

\* ------------------------------------------------------ concurrent start
\* NumCallers goroutines call Send, Close, Wait or RecvAs on one chain (a
\* BaseChain or a MultiChain: both have the same startIfUnstarted).  Every
\* one of these begins with startIfUnstarted:
\*   if !c.hasStarted() { c.start(...) }     hasStarted takes startLock
\*   c.setStarted()                          setStarted takes startLock
\* start launches the link goroutines and one collector; a collector ends,
\* once the input was closed, with close(c.channel()).
CallerIds == 1..NumCallers
StartingOps == {"Send", "Close", "Wait", "RecvAs"}

\* BaseChain.Send begins with
\*   if c.isClosed { c.handleError("chain is closed"); return err }
\* (isClosed is read without a lock; chanIn is closed by then, so
\* handleError only fills the error slot); MultiChain.Send does not
Call(c, o) ==
  /\ st.pc[c] = "idle"
  /\ st.calls[c] < MaxCalls
  /\ st' = IF o = "Send" /\ topo = "chain" /\ st.isClosed
           THEN [st EXCEPT !.op[c] = o, !.calls[c] = @ + 1, !.err = TRUE,
                           !.rejected = @ + 1]
           ELSE [st EXCEPT !.pc[c] = "check", !.op[c] = o,
                           !.calls[c] = @ + 1]
  /\ UNCHANGED <<chainAll, inv, fl, pl, ph, ca>>

\* if !c.hasStarted()
HasStarted(c) ==
  /\ st.pc[c] = "check"
  /\ st' = [st EXCEPT !.pc[c] = IF st.started THEN "set" ELSE "start"]
  /\ UNCHANGED <<chainAll, inv, fl, pl, ph, ca>>

\* c.start(c.chanIn, c.handleError, c.strictness)
Start(c) ==
  /\ st.pc[c] = "start"
  /\ st' = [st EXCEPT !.starts = @ + 1, !.collectors = @ + 1,
                      !.pc[c] = "set"]
  /\ UNCHANGED <<chainAll, inv, fl, pl, ph, ca>>

\* c.setStarted()
SetStartedBy(c) ==
  /\ st.pc[c] = "set"
  /\ st' = [st EXCEPT !.started = TRUE,
                      !.flips = IF st.started THEN @ ELSE @ + 1,
                      !.pc[c] = "body"]
  /\ UNCHANGED <<chainAll, inv, fl, pl, ph, ca>>

\* the rest of the call.  Close: closeChanInOnce.  Send: errLock.Lock();
\* if getError() != nil, return "chain is in error state".
CallBody(c) ==
  /\ st.pc[c] = "body"
  /\ st.op[c] = "Send" => st.lock = 0
  /\ st' = CASE st.op[c] = "Close" ->
                 [st EXCEPT !.chanInClosed = TRUE,
                            !.pc[c] = IF topo = "chain" THEN "flag"
                                      ELSE "idle"]
            [] st.op[c] = "Send" /\ st.err ->
                 [st EXCEPT !.rejected = @ + 1, !.pc[c] = "idle"]
            [] st.op[c] = "Send" /\ ~st.err ->
                 [st EXCEPT !.lock = c, !.pc[c] = "send"]
            [] OTHER -> [st EXCEPT !.pc[c] = "idle"]
  /\ UNCHANGED <<chainAll, inv, fl, pl, ph, ca>>

\* BaseChain.Close, last statement: c.isClosed = true
CloseSetsFlag(c) ==
  /\ st.pc[c] = "flag"
  /\ st' = [st EXCEPT !.isClosed = TRUE, !.pc[c] = "idle"]
  /\ UNCHANGED <<chainAll, inv, fl, pl, ph, ca>>

\* Send: c.chanIn <- v, received by the head link (the disperser of a
\* MultiChain), then the deferred errLock.Unlock(); a send on a closed
\* channel panics, whether the channel was closed before the send began
\* or while it was blocked
SendValue(c) ==
  /\ st.pc[c] = "send"
  /\ st' = [st EXCEPT
              !.sentOnClosed = @ \/ st.chanInClosed,
              !.delivered = IF st.chanInClosed THEN @ ELSE @ + 1,
              !.lock = 0, !.pc[c] = "idle"]
  /\ UNCHANGED <<chainAll, inv, fl, pl, ph, ca>>

\* collectOutput's deferred close(c.channel())
CollectorCloses ==
  /\ st.collectors > 0
  /\ st.chanInClosed
  /\ st' = [st EXCEPT !.collectors = @ - 1, !.outCloses = @ + 1]
  /\ UNCHANGED <<chainAll, inv, fl, pl, ph, ca>>

InitStart ==
  /\ built = <<>>
  /\ claimed = {}
  /\ topo \in {"chain", "multi"}
  /\ outputters = 0
  /\ links = <<"str", "str">>
  /\ strictness = Moderate
  /\ fault = "none"
  /\ err = NoErr
  /\ InitRun
  /\ inv = InvIdle
  /\ st = StIdle
  /\ fl = FlIdle
  /\ pl = PlIdle
  /\ ph = PhIdle
  /\ ca = CaIdle

NextStart ==
  \/ \E c \in CallerIds, o \in StartingOps : Call(c, o)
  \/ \E c \in CallerIds : HasStarted(c)
  \/ \E c \in CallerIds : Start(c)
  \/ \E c \in CallerIds : SetStartedBy(c)
  \/ \E c \in CallerIds : CallBody(c)
  \/ \E c \in CallerIds : CloseSetsFlag(c)
  \/ \E c \in CallerIds : SendValue(c)
  \/ CollectorCloses

SpecStart == InitStart /\ [][NextStart]_vars

\* ------------------------------------------------------------ data flow
\* The path of the values through a composite whose links all succeed,
\* with values that can be told apart.  A value is <<tag, j>>: the j-th
\* value submitted; a MultiChain sibling's link (IntLink with the
\* sibling's own intOp) retags it with the sibling's number, a Hopper's
\* chain c is sent the values <<c, j>>.
\*   chain   NewChain(link1, link2), no outputters
\*   multi   NewMulti(NewChain(link1), NewChain(link2))
\*   hopper  NewHopper(NewChain(link1), NewChain(link2)), each chain with
\*           its own caller
\* Channels are unbuffered: a value is handed over when the sender and the
\* receiver are both ready.  The consumer of the composite's output
\* (RecvAs in a loop) is always ready.
FlowTopos == {"chain", "multi", "hopper"}

\* the values submitted on input c of a composite
Inputs(t, c, n) == [j \in 1..n |-> <<IF t = "hopper" THEN c ELSE 0, j>>]

\* the one value link i sends for an input
Emits(t, i, v) == IF t = "multi" THEN <<i, v[2]>> ELSE v

\* an outputToSelf that puts the newest value first
PutFirst(items, v) == <<v>> \o items

\* outputToSelf: c.outputItems = append(c.outputItems, converted)
OutputToSelf(items, v) == Append(items, v)

\* a disperser that serves the first sibling only
OnlyFirst(i) == FALSE

\* disperseInput: for _, chanIn := range m.chanIns { chanIn <- input }
MoreSiblings(i) == i < N

\* a collector that takes from whichever child offers a value
AnyChild(idx, i) == TRUE

\* MultiChain.collectOutput: for _, child := range m.children()
\*   { for v := range child.channel() { m.output(v) } }
RangingOver(idx, i) == idx = i

\* a Hopper that takes from whichever chain offers a value
AnyChain(idx, i) == TRUE

\* Hopper.processLoop: for _, chain := range h.chains { h.collectOutput(chain) }
HopperAt(idx, i) == idx = i

\* outputters of the composite: none, or a MarkdownOutputter (its Output
\* takes a Markdownable, so every plain value fails conversion) next to a
\* JSONOutputter (Output(any) never fails), in either order
OutputterSets == {<<>>, <<"markdown", "json">>, <<"json", "markdown">>}

\* chain.Output(outputter, item): nil, or the error of the conversion
OutputResult(kind, v) == IF kind = "markdown" THEN "conversion" ELSE "nil"

\* an outputToOutputters that returns the first outputter error
FirstFailure(results) ==
  IF \E o \in 1..Len(results) : results[o] # "nil"
  THEN results[CHOOSE o \in 1..Len(results) :
                 /\ results[o] # "nil"
                 /\ \A q \in 1..(o - 1) : results[q] = "nil"]
  ELSE "nil"

\* outputToOutputters: an outputter's error is logged (Warn); return nil
OutputToOutputters(results) == "nil"

\* c.output(v) by the collector of composite r: outputToSelf without
\* outputters, else every outputter is offered v.  BaseChain.collectOutput
\* passes a non-nil result to errHandler; MultiChain.collectOutput drops it.
FlowOutput(r, v) ==
  IF r.outs = <<>>
  THEN [r EXCEPT !.outputItems = OutputToSelf(@, v)]
  ELSE LET results == [o \in 1..Len(r.outs) |-> OutputResult(r.outs[o], v)]
           res == OutputToOutputters(results)
       IN [r EXCEPT
             !.offered = [o \in 1..Len(r.outs) |-> Append(r.offered[o], v)],
             !.accepted = [o \in 1..Len(r.outs) |->
                             IF results[o] = "nil"
                             THEN Append(r.accepted[o], v)
                             ELSE r.accepted[o]],
             !.reported = IF res # "nil" /\ r.topo = "chain"
                          THEN @ \cup {res} ELSE @]

\* processLoop of link i receives v and Process sends Emits(v) on b.ch,
\* where it waits for the link's consumer
FlowTake(r, i, v) ==
  [r EXCEPT !.got[i] = Append(@, v), !.hold[i] = Emits(r.topo, i, v)]

\* Send: chanIn <- v, received by the head link (chain, a Hopper's chain)
\* or by the disperser (multi)
FlowSend(c) ==
  /\ fl.topo # "none"
  /\ fl.sent[c] < fl.plan[c]
  /\ ~fl.inClosed[c]
  /\ LET v == Inputs(fl.topo, c, fl.plan[c])[fl.sent[c] + 1]
         r == [fl EXCEPT !.sent[c] = @ + 1]
     IN IF fl.topo = "multi"
        THEN /\ fl.dval = <<>>
             /\ fl' = [r EXCEPT !.dval = v, !.didx = 1]
        ELSE /\ fl.hold[c] = <<>>
             /\ fl' = FlowTake(r, c, v)
  /\ UNCHANGED <<chainAll, inv, st, pl, ph, ca>>

\* Close, after the caller's last Send
FlowClose(c) ==
  /\ fl.topo # "none"
  /\ fl.sent[c] = fl.plan[c]
  /\ ~fl.inClosed[c]
  /\ fl.topo \in {"chain", "multi"} => c = 1
  /\ fl' = [fl EXCEPT !.inClosed[c] = TRUE]
  /\ UNCHANGED <<chainAll, inv, st, pl, ph, ca>>

\* disperseInput: the next sibling's head link receives the value
FlowDisperse ==
  /\ fl.dval # <<>>
  /\ fl.hold[fl.didx] = <<>>
  /\ LET r == FlowTake(fl, fl.didx, fl.dval)
     IN fl' = IF MoreSiblings(fl.didx)
              THEN [r EXCEPT !.didx = @ + 1]
              ELSE [r EXCEPT !.dval = <<>>, !.didx = 1]
  /\ UNCHANGED <<chainAll, inv, st, pl, ph, ca>>

\* startDisperser: range prevChan ends; every chanIns[i] is closed
FlowDisperserDone ==
  /\ fl.topo = "multi"
  /\ fl.inClosed[1]
  /\ fl.dval = <<>>
  /\ ~fl.insClosed
  /\ fl' = [fl EXCEPT !.insClosed = TRUE]
  /\ UNCHANGED <<chainAll, inv, st, pl, ph, ca>>

\* b.ch <- v of link 1 received by link 2 (chain)
FlowLinkToLink ==
  /\ fl.topo = "chain"
  /\ fl.hold[1] # <<>>
  /\ fl.hold[2] = <<>>
  /\ fl' = FlowTake([fl EXCEPT !.hold[1] = <<>>], 2, fl.hold[1])
  /\ UNCHANGED <<chainAll, inv, st, pl, ph, ca>>

\* the channel link i ranges over is closed
FlowInputClosed(i) ==
  CASE fl.topo = "chain" -> IF i = 1 THEN fl.inClosed[1] ELSE fl.lclosed[1]
    [] fl.topo = "multi" -> fl.insClosed
    [] OTHER -> fl.inClosed[i]

\* processLoop of link i ends; cleanup: Complete, Close
FlowLinkDone(i) ==
  /\ fl.topo # "none"
  /\ FlowInputClosed(i)
  /\ fl.hold[i] = <<>>
  /\ ~fl.lclosed[i]
  /\ fl' = [fl EXCEPT !.lclosed[i] = TRUE]
  /\ UNCHANGED <<chainAll, inv, st, pl, ph, ca>>

\* collectOutput of the chain: c.output(input) for the last link's value
FlowCollect ==
  /\ fl.topo = "chain"
  /\ fl.cpc = "loop"
  /\ fl.hold[N] # <<>>
  /\ fl' = FlowOutput([fl EXCEPT !.hold[N] = <<>>], fl.hold[N])
  /\ UNCHANGED <<chainAll, inv, st, pl, ph, ca>>

\* collectOutput of sibling chain i (multi) or referenced chain i (hopper)
FlowSibCollect(i) ==
  /\ fl.topo \in {"multi", "hopper"}
  /\ fl.hold[i] # <<>>
  /\ fl' = [fl EXCEPT !.sibItems[i] = OutputToSelf(@, fl.hold[i]),
                      !.hold[i] = <<>>]
  /\ UNCHANGED <<chainAll, inv, st, pl, ph, ca>>

\* flushOutputItems of child chain i: c.channel() <- item, received by
\* the MultiChain's collector: m.output(v)
FlowSibFlush(i) ==
  /\ fl.topo = "multi"
  /\ fl.lclosed[i]
  /\ fl.sibItems[i] # <<>>
  /\ fl.cpc = "loop"
  /\ RangingOver(fl.cidx, i)
  /\ fl' = FlowOutput([fl EXCEPT !.sibItems[i] = Tail(@)],
                      Head(fl.sibItems[i]))
  /\ UNCHANGED <<chainAll, inv, st, pl, ph, ca>>

\* flushOutputItems of referenced chain i, received by the Hopper's
\* collectOutput: h.Send(output), taken by the Hopper's consumer
FlowHopperForward(i) ==
  /\ fl.topo = "hopper"
  /\ fl.lclosed[i]
  /\ fl.sibItems[i] # <<>>
  /\ fl.cpc = "loop"
  /\ HopperAt(fl.cidx, i)
  /\ fl' = [fl EXCEPT !.sibItems[i] = Tail(@),
                      !.received = Append(@, Head(fl.sibItems[i]))]
  /\ UNCHANGED <<chainAll, inv, st, pl, ph, ca>>

\* child chain i: items flushed; close(c.channel())
FlowSibFinish(i) ==
  /\ fl.topo \in {"multi", "hopper"}
  /\ fl.lclosed[i]
  /\ fl.sibItems[i] = <<>>
  /\ ~fl.sclosed[i]
  /\ fl' = [fl EXCEPT !.sclosed[i] = TRUE]
  /\ UNCHANGED <<chainAll, inv, st, pl, ph, ca>>

\* the range over the current child's channel ends: next child, or (last
\* child) the MultiChain's deferred flush / the Hopper's deferred
\* close(h.channel())
FlowNextChild ==
  /\ fl.topo \in {"multi", "hopper"}
  /\ fl.cpc = "loop"
  /\ fl.sclosed[fl.cidx]
  /\ fl' = IF fl.cidx < N THEN [fl EXCEPT !.cidx = @ + 1]
           ELSE IF fl.topo = "multi" THEN [fl EXCEPT !.cpc = "flush"]
           ELSE [fl EXCEPT !.cpc = "done", !.outClosed = TRUE]
  /\ UNCHANGED <<chainAll, inv, st, pl, ph, ca>>

\* a collector that may leave its loop while the channel is open
EndsAnyTime(closed) == TRUE

\* for input := range lastLinkChan ends when the channel was closed
RangeEnds(closed) == closed

\* the chain's range over the last link's channel ends
FlowCollectorEnd ==
  /\ fl.topo = "chain"
  /\ fl.cpc = "loop"
  /\ RangeEnds(fl.lclosed[N])
  /\ fl' = [fl EXCEPT !.cpc = "flush"]
  /\ UNCHANGED <<chainAll, inv, st, pl, ph, ca>>

\* flushOutputItems: c.channel() <- item, taken by the consumer
FlowFlush ==
  /\ fl.cpc = "flush"
  /\ fl.outputItems # <<>>
  /\ fl' = [fl EXCEPT !.outputItems = Tail(@),
                      !.received = Append(@, Head(fl.outputItems))]
  /\ UNCHANGED <<chainAll, inv, st, pl, ph, ca>>

\* close(c.channel())
FlowCloseTail ==
  /\ fl.cpc = "flush"
  /\ fl.outputItems = <<>>
  /\ fl' = [fl EXCEPT !.cpc = "closing", !.outClosed = TRUE]
  /\ UNCHANGED <<chainAll, inv, st, pl, ph, ca>>

\* outputter.Complete() of outputter o: JSONOutputter encodes to its file,
\* MarkdownOutputter creates its file; either fails when the file cannot
\* be written (outputter bad)
CompleteResult(o, bad) == IF o = bad THEN "complete" ELSE "nil"

\* closeOutputters: Complete of each outputter in order, returning at the
\* first error: <<number of outputters whose Complete ran, result>>
CloseOutputters(n, bad) ==
  IF \E o \in 1..n : CompleteResult(o, bad) # "nil"
  THEN LET f == CHOOSE o \in 1..n :
                  /\ CompleteResult(o, bad) # "nil"
                  /\ \A q \in 1..(o - 1) : CompleteResult(q, bad) = "nil"
       IN <<f, CompleteResult(f, bad)>>
  ELSE <<n, "nil">>

\* the deferred function of collectOutput after close(c.channel()):
\* BaseChain: if err := c.closeOutputters(); err != nil { errHandler(err) }
\* MultiChain: m.closeOutputters(), the result is not used
ReportsCloseError(t) == t = "chain"

\* closeOutputters in the collector's deferred function, then wgOut.Done()
FlowCloseOutputters ==
  /\ fl.cpc = "closing"
  /\ LET res == CloseOutputters(Len(fl.outs), fl.badOut)
     IN fl' = [fl EXCEPT !.cpc = "done",
                         !.completeCalls = [o \in 1..res[1] |-> fl.outs[o]],
                         !.err = IF res[2] # "nil" /\ ReportsCloseError(fl.topo)
                                    /\ fl.err = "nil"
                                 THEN res[2] ELSE @]
  /\ UNCHANGED <<chainAll, inv, st, pl, ph, ca>>

InitFlow ==
  /\ built = <<>>
  /\ claimed = {}
  /\ links = <<"str", "str">>
  /\ strictness = Moderate
  /\ fault = "none"
  /\ err = NoErr
  /\ InitRun
  /\ inv = InvIdle
  /\ st = StIdle
  /\ pl = PlIdle
  /\ ph = PhIdle
  /\ ca = CaIdle
  /\ \E t \in FlowTopos, p \in [LinkIds -> 0..MaxItems],
        os \in OutputterSets :
       /\ t \in {"chain", "multi"} => p[2] = 0
       /\ t = "hopper" => os = <<>>
       /\ \E bad \in 0..Len(os) :
            fl = [FlIdle EXCEPT !.topo = t, !.plan = p, !.outs = os,
                              !.badOut = bad,
                              !.offered = [o \in 1..Len(os) |-> <<>>],
                              !.accepted = [o \in 1..Len(os) |-> <<>>]]
  /\ outputters = Len(fl.outs)
  /\ topo = IF fl.topo = "multi" THEN "multi" ELSE "chain"

NextFlow ==
  \/ \E c \in LinkIds : FlowSend(c)
  \/ \E c \in LinkIds : FlowClose(c)
  \/ FlowDisperse
  \/ FlowDisperserDone
  \/ FlowLinkToLink
  \/ \E i \in LinkIds : FlowLinkDone(i)
  \/ FlowCollect
  \/ \E i \in LinkIds : FlowSibCollect(i)
  \/ \E i \in LinkIds : FlowSibFlush(i)
  \/ \E i \in LinkIds : FlowHopperForward(i)
  \/ \E i \in LinkIds : FlowSibFinish(i)
  \/ FlowNextChild
  \/ FlowCollectorEnd
  \/ FlowFlush
  \/ FlowCloseTail
  \/ FlowCloseOutputters

SpecFlow == InitFlow /\ [][NextFlow]_vars

\* ----------------------------------------------------------- ParamHolder
\* One cfg.ParamHolder and the calls made on it.  Declarations of the
\* parameter named ParamName (the description is the same in all of them):
\*   NewParam[string](p, d).WithShortcode(s)
\*   NewParam[int](p, d).WithShortcode(s)
\*   NewParam[string](p, d).WithDefault("d").WithShortcode(s)
\*   NewParam[string](p, d).AsRequired()               (ParamsLink "required")
\*   NewParam[string](p, d).AsRequired().WithRegex(re) (ErrorLink "errorAt")
\* re is a regex that "1" matches and that "a" and the empty string do not.
Decls ==
  { [type |-> "string", required |-> FALSE, flag |-> ShortCode,
     default |-> NoArg, regex |-> FALSE],
    [type |-> "int", required |-> FALSE, flag |-> ShortCode,
     default |-> NoArg, regex |-> FALSE],
    [type |-> "string", required |-> FALSE, flag |-> ShortCode,
     default |-> <<"string", "d">>, regex |-> FALSE],
    [type |-> "string", required |-> TRUE, flag |-> "",
     default |-> NoArg, regex |-> FALSE],
    [type |-> "string", required |-> TRUE, flag |-> "",
     default |-> NoArg, regex |-> TRUE] }

\* the declaration field of a call that declares nothing
NoDecl ==
  [type |-> "none", required |-> FALSE, flag |-> "", default |-> NoArg,
   regex |-> FALSE]

\* Identifier(): name:description:type:required, and the regex if any
Identifier(d) == <<ParamName, d.type, d.required, d.regex>>

\* Flag(): the shortcode, or the name when there is none
Flag(d) == IF d.flag = "" THEN ParamName ELSE d.flag

\* the zero value of T
Zero(t) == IF t = "int" THEN <<"int", "0">> ELSE <<t, "">>

\* the Param a declaration builds: NewParam, WithDefault
NewParam(d) ==
  [decl |-> d,
   value |-> IF d.default # NoArg THEN d.default ELSE Zero(d.type),
   hasValue |-> d.default # NoArg,
   hasBeenSet |-> FALSE]

\* convertFromCLIString: ConvertPrimative(type, text); Atoi fails on "a"
ConvertFromCLIString(t, text) ==
  IF t = "string" THEN [err |-> "nil", value |-> <<"string", text>>]
  ELSE IF text = "1" THEN [err |-> "nil", value |-> <<"int", text>>]
  ELSE [err |-> "convert", value |-> NoArg]

\* setValueDirectly: casted, ok := value.(T)
SetValueDirectly(prm, v) ==
  IF v[1] # prm.decl.type THEN [err |-> "type", param |-> prm]
  ELSE [err |-> "nil",
        param |-> [prm EXCEPT !.value = v, !.hasValue = TRUE,
                              !.hasBeenSet = TRUE]]

\* SetValue: a string goes through the CLI conversion first
SetValue(prm, v) ==
  IF v[1] = "string"
  THEN IF ConvertFromCLIString(prm.decl.type, v[2]).err # "nil"
       THEN [err |-> "convert", param |-> prm]
       ELSE SetValueDirectly(prm, ConvertFromCLIString(prm.decl.type, v[2]).value)
  ELSE SetValueDirectly(prm, v)

\* a SetParam that accepts every declaration
NeverCollides(h, d) == FALSE

\* SetParam: ok && retrieved.Identifier() != param.Identifier()
Collides(h, d) ==
  h.params # <<>> /\ Identifier(h.params[1].decl) # Identifier(d)

\* getPendingValue: ph.pending[param.Name()], else ph.pending[param.Flag()]
GetPendingValue(h, d) ==
  IF h.pending[ParamName] # NoArg THEN h.pending[ParamName]
  ELSE h.pending[Flag(d)]

\* deletePendingValue: deletes the entry under the name or, when there is
\* none, the entry under the flag
DeletePendingValue(h, d) ==
  IF h.pending[ParamName] # NoArg
  THEN [h EXCEPT !.pending[ParamName] = NoArg]
  ELSE [h EXCEPT !.pending[Flag(d)] = NoArg]

\* SetParam(param): <<holder afterwards, error>>; isValidForShortcode holds
\* of every declaration of type string or int
DoSetParam(h, d) ==
  IF Collides(h, d) THEN <<h, "collision">>
  ELSE IF GetPendingValue(h, d) # NoArg
  THEN IF SetValue(NewParam(d), GetPendingValue(h, d)).err # "nil"
       THEN <<h, SetValue(NewParam(d), GetPendingValue(h, d)).err>>
       ELSE <<[DeletePendingValue(h, d) EXCEPT
                 !.params = <<SetValue(NewParam(d),
                                       GetPendingValue(h, d)).param>>],
              "nil">>
  ELSE <<[h EXCEPT !.params = <<NewParam(d)>>], "nil">>

\* getParamByFlag(key): the parameter of that name, or with that flag
GetParamByFlag(h, key) ==
  h.params # <<>> /\ (key = ParamName \/ Flag(h.params[1].decl) = key)

\* setArg(arg): pending when no parameter answers to the key, else SetValue
DoSetArg(h, key, v) ==
  IF ~GetParamByFlag(h, key)
  THEN <<[h EXCEPT !.pending[key] = v], "nil">>
  ELSE IF SetValue(h.params[1], v).err # "nil"
  THEN <<h, SetValue(h.params[1], v).err>>
  ELSE <<[h EXCEPT !.params = <<SetValue(h.params[1], v).param>>], "nil">>

\* Arg(name): the declared parameter's Value(), else the pending value
\* under that name, else nil
Arg(h, name) ==
  IF h.params # <<>> /\ name = ParamName THEN h.params[1].value
  ELSE h.pending[name]

\* the regex re
RegexMatches(text) == text = "1"

\* Validate: <<error, parameter named in its message>>; isSettableTo holds
\* of every Value() of the parameter's own type
Validate(h) ==
  IF h.params = <<>> THEN <<"nil", "">>
  ELSE LET prm == h.params[1]
       IN IF prm.value[1] # prm.decl.type THEN <<"type", ParamName>>
          ELSE IF prm.decl.regex /\ prm.value[1] = "string"
                  /\ ~RegexMatches(prm.value[2])
          THEN <<"regex", "">>
          ELSE IF prm.decl.required /\ ~prm.hasBeenSet
                  /\ prm.decl.default = NoArg
          THEN <<"required", ParamName>>
          ELSE <<"nil", "">>

\* the holder after a call, with the call and its result logged
Logged(res, call) ==
  [res[1] EXCEPT !.log = Append(@, call), !.errs = Append(@, res[2])]

\* one call: SetParam(d), SetArg(key, v), or SetArgsFromList of one flag
Apply(h, call) ==
  IF call.op = "SetParam" THEN Logged(DoSetParam(h, call.decl), call)
  ELSE Logged(DoSetArg(h, call.key, call.val), call)

\* ph.SetParam(d)
PhSetParam(d) ==
  /\ Len(ph.log) < MaxOps
  /\ ph' = Apply(ph, [op |-> "SetParam", decl |-> d, key |-> "",
                      val |-> NoArg])
  /\ UNCHANGED <<chainAll, inv, st, fl, pl, ca>>

\* ph.SetArg(key, v)
PhSetArg(key, v) ==
  /\ Len(ph.log) < MaxOps
  /\ ph' = Apply(ph, [op |-> "SetArg", decl |-> NoDecl, key |-> key,
                      val |-> v])
  /\ UNCHANGED <<chainAll, inv, st, fl, pl, ca>>

\* ph.SetArgsFromList({"-key", text}): setArg of a pending argument whose
\* value is the string text
PhSetArgsFromList(key, v) ==
  /\ Len(ph.log) < MaxOps
  /\ v[1] = "string"
  /\ ph' = Apply(ph, [op |-> "SetArgsFromList", decl |-> NoDecl,
                      key |-> key, val |-> v])
  /\ UNCHANGED <<chainAll, inv, st, fl, pl, ca>>

InitParam ==
  /\ built = <<>>
  /\ claimed = {}
  /\ topo = "chain"
  /\ outputters = 0
  /\ links = <<"str", "str">>
  /\ strictness = Moderate
  /\ fault = "none"
  /\ err = NoErr
  /\ InitRun
  /\ AuxIdle

NextParam ==
  \/ \E d \in Decls : PhSetParam(d)
  \/ \E key \in PhKeys, v \in ArgValues : PhSetArg(key, v)
  \/ \E key \in PhKeys, v \in ArgValues : PhSetArgsFromList(key, v)

SpecParam == InitParam /\ [][NextParam]_vars

\* ------------------------------------------------ arguments at chain start
\* How a starting composite hands its arguments to its children.  Both
\* links are ArgCheckingLinks: each declares the parameter ParamName in its
\* Params(), with or without a default; a link may be created with
\* cfg.WithArg(ParamName, ExplicitValue), and the outermost composite may
\* be given WithConfigs(cfg.WithArg(ParamName, ChainValue)).
\*   chain   NewChain(link1, link2)
\*   nested  NewChain(NewChain(link1, link2))
\*   multi   NewMulti(NewChain(link1), NewChain(link2))
\* outer is the holder of the outermost composite, inner[j] the holder of
\* its j-th child chain.
ArgTopos == {"chain", "nested", "multi"}
ExplicitValue == <<"string", "a">>
ChainValue == <<"string", "1">>

\* the declarations of ArgCheckingLink.Params(): with a default, and the
\* same parameter without one
ArgDecls == {d \in Decls : d.type = "string" /\ ~d.required /\ ~d.regex}

\* the declaration the holders of composite r were given
ArgDecl(r) == r.outer.params[1].decl

\* WasSet(name): the declared parameter's HasBeenSet()
WasSet(h) == h.params # <<>> /\ h.params[1].hasBeenSet

\* Args(): the declared parameters that have a value
Args(h) ==
  IF h.params # <<>> /\ h.params[1].hasValue
  THEN {<<ParamName, h.params[1].value>>} ELSE {}

\* NewBase(link, configs...): SetParams(link.Params()...), WithConfigs
NewBase(d, configs) ==
  IF configs = <<>> THEN DoSetParam(PhIdle, d)[1]
  ELSE DoSetArg(DoSetParam(PhIdle, d)[1], ParamName, configs[1])[1]

\* the children of the outermost composite: links, or chains
NumChildren(t) == IF t = "nested" THEN 1 ELSE N

\* the links of child chain j
InnerLinks(t, j) == IF t = "nested" THEN LinkIds ELSE {j}

\* setArgs: expectsParam && !hasArg, on the child's own holder
HasArg(h) == WasSet(h)

\* setArgs(paramable) for a link: SetArg of every argument of the parent
\* that the link declares and has not been set
SetArgsLink(parent, h) ==
  IF Args(parent) # {} /\ h.params # <<>> /\ ~HasArg(h)
  THEN DoSetArg(h, ParamName, parent.params[1].value)[1]
  ELSE h

\* setArgs(paramable) for a child chain: WasSet is the chain's own
\* holder's, and BaseChain.SetArg sets the argument on every link that
\* declares the parameter
SetArgsChain(r, j) ==
  IF Args(r.outer) # {} /\ ~HasArg(r.inner[j])
  THEN [r EXCEPT !.links =
          [i \in LinkIds |->
             IF i \in InnerLinks(r.topo, j) /\ r.links[i].params # <<>>
             THEN DoSetArg(r.links[i], ParamName, r.outer.params[1].value)[1]
             ELSE r.links[i]]]
  ELSE r

\* resetParams: c.Base.SetParams(c.Params()...), then the added configs
ResetParams(h, d, configs) ==
  IF configs = <<>> THEN DoSetParam(h, d)[1]
  ELSE DoSetArg(DoSetParam(h, d)[1], ParamName, configs[1])[1]

\* start of the outermost composite: resetParams
ArgsResetParams ==
  /\ ca.pc = "reset"
  /\ ca' = [ca EXCEPT
              !.outer = ResetParams(ca.outer, ArgDecl(ca),
                                    IF ca.chainArg THEN <<ChainValue>>
                                    ELSE <<>>),
              !.pc = "children"]
  /\ UNCHANGED <<chainAll, inv, st, fl, pl, ph>>

\* startChild of the outermost composite: setArgs(child); go child.start
ArgsStartChild ==
  /\ ca.pc = "children"
  /\ ca.idx <= NumChildren(ca.topo)
  /\ LET r == [ca EXCEPT !.idx = @ + 1]
     IN ca' = IF ca.topo = "chain"
              THEN [r EXCEPT !.links[ca.idx] =
                               SetArgsLink(ca.outer, ca.links[ca.idx])]
              ELSE [SetArgsChain(r, ca.idx) EXCEPT !.ipc[ca.idx] = "reset"]
  /\ UNCHANGED <<chainAll, inv, st, fl, pl, ph>>

\* every child of the outermost composite has been started
ArgsStarted ==
  /\ ca.pc = "children"
  /\ ca.idx > NumChildren(ca.topo)
  /\ ca' = [ca EXCEPT !.pc = "done"]
  /\ UNCHANGED <<chainAll, inv, st, fl, pl, ph>>

\* start of child chain j: resetParams (a child chain has no added configs)
ArgsInnerReset(j) ==
  /\ ca.ipc[j] = "reset"
  /\ ca' = [ca EXCEPT !.inner[j] = ResetParams(ca.inner[j], ArgDecl(ca), <<>>),
                      !.ipc[j] = "children",
                      !.iidx[j] = IF ca.topo = "nested" THEN 1 ELSE j]
  /\ UNCHANGED <<chainAll, inv, st, fl, pl, ph>>

\* startChild of child chain j: setArgs(link); go link.start
ArgsInnerStartChild(j) ==
  /\ ca.ipc[j] = "children"
  /\ ca.iidx[j] \in InnerLinks(ca.topo, j)
  /\ ca' = [ca EXCEPT !.links[ca.iidx[j]] =
                        SetArgsLink(ca.inner[j], ca.links[ca.iidx[j]]),
                      !.iidx[j] = @ + 1]
  /\ UNCHANGED <<chainAll, inv, st, fl, pl, ph>>

\* every link of child chain j has been started
ArgsInnerStarted(j) ==
  /\ ca.ipc[j] = "children"
  /\ ca.iidx[j] \notin InnerLinks(ca.topo, j)
  /\ ca' = [ca EXCEPT !.ipc[j] = "done"]
  /\ UNCHANGED <<chainAll, inv, st, fl, pl, ph>>

\* the composite after construction: every holder was given the fresh
\* declarations of Params() by NewBase; the links also their configs
InitArgs ==
  /\ built = <<>>
  /\ claimed = {}
  /\ topo = "chain"
  /\ outputters = 0
  /\ links = <<"str", "str">>
  /\ strictness = Moderate
  /\ fault = "none"
  /\ err = NoErr
  /\ InitRun
  /\ inv = InvIdle
  /\ st = StIdle
  /\ fl = FlIdle
  /\ pl = PlIdle
  /\ ph = PhIdle
  /\ \E t \in ArgTopos, d \in ArgDecls, e \in [LinkIds -> BOOLEAN],
        a \in BOOLEAN :
       ca = [CaIdle EXCEPT
               !.topo = t, !.explicit = e, !.chainArg = a,
               !.links = [i \in LinkIds |->
                            NewBase(d, IF e[i] THEN <<ExplicitValue>>
                                       ELSE <<>>)],
               !.outer = NewBase(d, <<>>),
               !.inner = [j \in LinkIds |->
                            IF t # "chain" /\ j <= NumChildren(t)
                            THEN NewBase(d, <<>>) ELSE PhIdle],
               !.pc = "reset"]

NextArgs ==
  \/ ArgsResetParams
  \/ ArgsStartChild
  \/ ArgsStarted
  \/ \E j \in LinkIds : ArgsInnerReset(j)
  \/ \E j \in LinkIds : ArgsInnerStartChild(j)
  \/ \E j \in LinkIds : ArgsInnerStarted(j)

SpecArgs == InitArgs /\ [][NextArgs]_vars

\* -------------------------------------------------------- parallel wrapper
\* chain.NewChain(Parallelize(constructor)()) with the "workers" argument
\* PoolWorkers: the wrapper's processLoop submits every input to the pool,
\* whose workers build a fresh link per work item, Invoke it, Complete it
\* and hand the results to the callback, which sends them on the wrapper's
\* channel.  The caller sends the inputs and calls Close; the reader of the
\* wrapper's channel (the chain's collector) is always ready.  Outputs are
\* recorded as <<j, v>>: value v sent for the j-th input.
\*   nilCtor  a constructor that returns nil
PoolKinds == {"str", "procErr", "errInit", "completer", "nilCtor"}

\* worker := wp.linkConstructor(workerConfigs...); worker == nil
ConstructorFails(k) == k = "nilCtor"

\* results, err := worker.Invoke(input): Initialize, Process(item), Close
InvokeResult(k, v) ==
  IF InitializeFails(k) THEN [results |-> <<>>, err |-> "initialize"]
  ELSE CASE ProcessOutcome(k, v) = "emit" -> [results |-> <<v>>, err |-> "nil"]
         [] ProcessOutcome(k, v) \in {"process", "conversion"} ->
              [results |-> <<>>, err |-> ProcessOutcome(k, v)]
         [] OTHER -> [results |-> <<>>, err |-> "nil"]

\* worker.Complete() after Invoke: a Complete that sends finds the link's
\* channel closed by Invoke (send on closed channel: panic)
CompletePanics(k) == ~ConstructorFails(k) /\ EmitsInComplete(k)

\* what processWorkItem hands to the callback: []any{} when the link could
\* not be built or Invoke failed, else Invoke's results
CallbackArg(k, v) ==
  IF ConstructorFails(k) \/ InvokeResult(k, v).err # "nil" THEN <<>>
  ELSE InvokeResult(k, v).results

\* processWorkItem(w, item j) up to the call of the callback
ProcessWorkItem(r, w, j) ==
  IF CompletePanics(r.kind)
  THEN [r EXCEPT !.witem[w] = j, !.panicked = TRUE]
  ELSE [r EXCEPT !.witem[w] = j,
                 !.called[j] = @ + 1,
                 !.results[j] = CallbackArg(r.kind, r.input[j]),
                 !.werr[j] = IF ConstructorFails(r.kind) THEN "construct"
                             ELSE InvokeResult(r.kind, r.input[j]).err,
                 !.wpend[w] = CallbackArg(r.kind, r.input[j])]

\* a SubmitWork that gives up when the submission channel is full
DropsWhenFull(full) == FALSE

\* SubmitWork: select { case wp.workChan <- workItem:
\*                      default: wp.processWorkItem(-1, workItem) }
RunsInline(full) == full

\* a Process that returns the failure of the work item it ran
ReturnsWorkerError(e) == IF e = "nil" THEN "nil" ELSE "process"

\* ParallelWrapper.Process: SubmitWork(...); return nil
ProcessReturns(e) == "nil"

\* Base.process: errHandler(err) and ignoreRemaining when shouldBreak
PoolAfterProcess(r, class) ==
  IF ShouldBreak(strictness, class)
  THEN [r EXCEPT !.ignoring = TRUE,
                 !.err = IF r.err = "nil" THEN class ELSE @]
  ELSE r

\* processLoop of the wrapper takes the next input: skipped after a kill,
\* a nil input is a debug error, else Process submits it
PoolTake ==
  /\ pl.lpc = "loop"
  /\ ~pl.panicked
  /\ pl.next <= Len(pl.input)
  /\ LET j == pl.next
         r == [pl EXCEPT !.next = @ + 1]
         full == Len(pl.workChan) >= 2 * PoolWorkers
     IN pl' =
          IF SkipsInput(pl.ignoring) \/ Convert("parallel", pl.input[j]) # "ok"
          THEN r
          ELSE IF ~full
          THEN PoolAfterProcess(
                 [r EXCEPT !.workChan = Append(@, j), !.ran[j] = "worker"],
                 ProcessReturns("nil"))
          ELSE IF RunsInline(full)
          THEN [ProcessWorkItem(pl, 0, j) EXCEPT !.lpc = "inline",
                                                 !.ran[j] = "inline"]
          ELSE r
  /\ UNCHANGED <<chainAll, inv, st, fl, ph, ca>>

\* for workItem := range wp.workChan: worker w runs processWorkItem
WorkerTake(w) ==
  /\ pl.lpc \in {"loop", "inline", "shutdown", "invoked"}
  /\ ~pl.panicked
  /\ ~pl.wexit[w]
  /\ pl.witem[w] = 0
  /\ pl.workChan # <<>>
  /\ pl' = ProcessWorkItem([pl EXCEPT !.workChan = Tail(@)], w,
                           Head(pl.workChan))
  /\ UNCHANGED <<chainAll, inv, st, fl, ph, ca>>

\* the callback: pw.Send(result), received by the wrapper's reader
PoolSend(w) ==
  /\ ~pl.panicked
  /\ pl.wpend[w] # <<>>
  /\ pl' = IF pl.closed
           THEN [pl EXCEPT !.sentOnClosed = TRUE, !.panicked = TRUE]
           ELSE [pl EXCEPT !.out = Append(@, <<pl.witem[w], Head(pl.wpend[w])>>),
                           !.wpend[w] = Tail(@)]
  /\ UNCHANGED <<chainAll, inv, st, fl, ph, ca>>

\* the callback of worker w returns; the worker ranges on
WorkerDone(w) ==
  /\ ~pl.panicked
  /\ pl.witem[w] # 0
  /\ pl.wpend[w] = <<>>
  /\ pl' = [pl EXCEPT !.witem[w] = 0]
  /\ UNCHANGED <<chainAll, inv, st, fl, ph, ca>>

\* the inline processWorkItem returns, SubmitWork returns, Process returns
InlineDone ==
  /\ pl.lpc = "inline"
  /\ ~pl.panicked
  /\ pl.wpend[0] = <<>>
  /\ pl' = PoolAfterProcess(
             [pl EXCEPT !.witem[0] = 0, !.lpc = "loop", !.next = @ + 1],
             ProcessReturns(pl.werr[pl.witem[0]]))
  /\ UNCHANGED <<chainAll, inv, st, fl, ph, ca>>

\* the wrapper's input is closed: cleanup calls Complete, whose Shutdown
\* closes workChan and waits for the workers
PoolShutdown ==
  /\ pl.lpc = "loop"
  /\ ~pl.panicked
  /\ pl.next > Len(pl.input)
  /\ pl' = [pl EXCEPT !.lpc = "shutdown", !.chanClosed = TRUE]
  /\ UNCHANGED <<chainAll, inv, st, fl, ph, ca>>

\* worker w: the range over the closed, drained workChan ends; wg.Done()
WorkerExit(w) ==
  /\ ~pl.panicked
  /\ pl.chanClosed
  /\ pl.workChan = <<>>
  /\ pl.witem[w] = 0
  /\ ~pl.wexit[w]
  /\ pl' = [pl EXCEPT !.wexit[w] = TRUE]
  /\ UNCHANGED <<chainAll, inv, st, fl, ph, ca>>

\* wg.Wait() returns; Complete returns; cleanup closes the wrapper's channel
PoolClose ==
  /\ pl.lpc = "shutdown"
  /\ ~pl.panicked
  /\ \A w \in 1..PoolWorkers : pl.wexit[w]
  /\ pl' = [pl EXCEPT !.lpc = "done", !.closed = TRUE]
  /\ UNCHANGED <<chainAll, inv, st, fl, ph, ca>>

InitPool ==
  /\ built = <<>>
  /\ claimed = {}
  /\ topo = "chain"
  /\ outputters = 0
  /\ links = <<"str", "str">>
  /\ fault = "none"
  /\ err = NoErr
  /\ InitRun
  /\ strictness \in Strictnesses
  /\ inv = InvIdle
  /\ st = StIdle
  /\ fl = FlIdle
  /\ ph = PhIdle
  /\ ca = CaIdle
  /\ \E k \in PoolKinds, in \in SeqsUpTo(Values, MaxWork) :
       pl = [PlIdle EXCEPT !.kind = k, !.input = in, !.lpc = "loop"]

NextPool ==
  \/ PoolTake
  \/ \E w \in 1..PoolWorkers : WorkerTake(w)
  \/ \E w \in 0..PoolWorkers : PoolSend(w)
  \/ \E w \in 1..PoolWorkers : WorkerDone(w)
  \/ InlineDone
  \/ PoolShutdown
  \/ \E w \in 1..PoolWorkers : WorkerExit(w)
  \/ PoolClose

SpecPool == InitPool /\ [][NextPool]_vars

\* Invoke on the wrapper itself: after the last Process has returned,
\* b.Close() closes the wrapper's channel; Complete is not called, so the
\* pool is not shut down and its workers keep ranging over workChan
InvokeClose ==
  /\ pl.lpc = "loop"
  /\ ~pl.panicked
  /\ pl.next > Len(pl.input)
  /\ pl' = [pl EXCEPT !.lpc = "invoked", !.closed = TRUE]
  /\ UNCHANGED <<chainAll, inv, st, fl, ph, ca>>

NextPoolInvoke ==
  \/ PoolTake
  \/ \E w \in 1..PoolWorkers : WorkerTake(w)
  \/ \E w \in 0..PoolWorkers : PoolSend(w)
  \/ \E w \in 1..PoolWorkers : WorkerDone(w)
  \/ InlineDone
  \/ InvokeClose

SpecPoolInvoke == InitPool /\ [][NextPoolInvoke]_vars

\* =============================================================== claims
\* every member passes Initialize, validation and Complete, and the chain
\* was built without a construction or parameter error
HealthyChain ==
  /\ fault = "none"
  /\ \A i \in LinkIds : links[i] \in {"str", "procErr"}
  /\ (errHistory = <<>> \/ errHistory[1] # "inUse")

\* the caller has called Close and Wait has returned, and no Send was
\* attempted after Close
ClosedAndWaited ==
  /\ closes > 0
  /\ waited
  /\ pc[Caller] = "idle"
  /\ ~sendAfterClose

\* a link met an error that its strictness treats as fatal
KillingHit ==
  \/ "process" \in hits /\ strictness \in {Moderate, Strict}
  \/ "conversion" \in hits /\ strictness = Strict

C2_FirstErrorWins ==
  errHistory # <<>> => err = errHistory[1]

\* a Send that began after a link reported a fatal error has returned
SendAfterKillReturned ==
  /\ sendAfterKill
  /\ pc[Caller] = "idle"
  /\ sendResult \notin {"none", "pending"}

\* C3: once a link has reported a chain-killing error on a started chain,
\* the input channel is closed and every Send that begins afterwards
\* returns "chain is in error state" instead of accepting its values.
C3_SendAfterKillRefused ==
  SendAfterKillReturned => (chanInClosed /\ sendResult = "errState")

\* C4: a Send issued after Close (Chain or MultiChain) returns an error,
\* delivers the value to no link and never sends on the closed input
\* channel.
C4_SendAfterCloseRefused ==
  sendAfterClose =>
    /\ ~panicked
    /\ ~sendTaken
    /\ sendResult \in {"pending", "closed", "errState"}

\* C5: single-use links: when a chain or MultiChain B is constructed with
\* a link that another chain already contains, B.Error() is non-nil.
C5_ReusedLinkIsAnError ==
  \A k \in 1..Len(built) : built[k].reused => built[k].err # NoErr

\* the caller is inside a Wait that it called after Close
InWaitAfterClose ==
  /\ op = "wait"
  /\ pc[Caller] # "idle"
  /\ closes > 0

Spawned == pc[Collector] # "off"

\* C7: whenever Wait returns, the collector has exited: every output has
\* been handed out and every outputter's Complete has finished, also when
\* the chain is in error.
C7_WaitOutlivesCollector ==
  (waited /\ Spawned) =>
    /\ pc[Collector] = "done"
    /\ outputItems = <<>>
    /\ outCompleted = outputters

C9_HookFailureReported ==
  ((\E i \in LinkIds : links[i] \in {"errInit", "errComplete"})
     /\ closes > 0 /\ waited /\ pc[Caller] = "idle")
    => err # NoErr

C9_Witness ==
  /\ \E i \in LinkIds : links[i] = "errComplete"
  /\ strictness = Lax
  /\ closes > 0 /\ waited /\ pc[Caller] = "idle"
  /\ hookFailed
  /\ err = "complete"

\* C10: a parameter error (failed validation, colliding or mistyped
\* parameter) is reported before the chain starts and the chain refuses
\* to start: no link calls Process on any input.
C10_ParameterErrorStopsStart ==
  (fault # "none" \/ \E i \in LinkIds : ValidateFails(links[i]))
    => processed = {}

\* scheduling: some goroutine that can run does run
FairSpec == Spec /\ WF_vars(Next)

\* a Wait called after Close returns
WaitAfterCloseReturns == InWaitAfterClose ~> waited

\* C11: a link's output channel is closed exactly once and only after the
\* link's Complete has returned, and no value (one emitted from Complete
\* included) is ever sent on the closed channel, whether the link runs in
\* a chain, through Invoke, or in a parallel wrapper's worker.
C11_ClosedOnlyAfterComplete ==
  /\ inv.closeCount <= 1
  /\ inv.closed => inv.completed
  /\ ~inv.sentOnClosed

\* the producer of link i's input holds a value that nobody has received
UpstreamBlocked(i) ==
  IF topo = "chain"
  THEN (IF i = 1 THEN pc[Caller] = "s_send" ELSE pc[L(i - 1)] = "emit")
  ELSE pc[Disperser] = "disperse" /\ dispIdx = i

\* C12: after a link's processLoop killed the chain, the link calls
\* Process on no further input, and it goes on receiving and discarding
\* its input until that closes: once the chain was closed, no run ends
\* with the producer of a killing link's input still holding a value.
C12_KillerDrainsInput ==
  /\ ~lateProcess
  /\ (closes > 0 /\ ~panicked /\ ~ENABLED Next) =>
       \A i \in LinkIds : ignoreRemaining[i] => ~UpstreamBlocked(i)

C12_Witness ==
  /\ topo = "chain"
  /\ ignoreRemaining[2]
  /\ 2 \in discarded
  /\ pc[L(1)] = "done"
  /\ pc[L(2)] = "done"
  /\ ~ENABLED Next

\* link i's Complete has run (it may still be reporting Complete's error)
Completed(i) ==
  \/ pc[L(i)] \in {"closeFailed", "done"}
  \/ /\ pc[L(i)] \in {"h_check", "h_drain", "h_lock"}
     /\ hRet[L(i)] \in {"closeFailed", "done"}

\* an error that kills the chain was raised: a fatal process or conversion
\* error, or a member that fails Initialize or parameter validation
KillRaised ==
  \/ killReported
  \/ \E i \in LinkIds : pc[L(i)] # "off" /\ links[i] \in {"errInit", "params"}

\* C13: on kill, Complete has run on every child link by the time the
\* chain's output channel is closed, whichever error killed the chain
\* (process, Initialize, parameter validation) and whichever link raised it.
C13_CompleteBeforeTailCloses ==
  (KillRaised /\ outClosed /\ ~panicked) => \A i \in LinkIds : Completed(i)

\* the caller is inside a Send
InSend == op = "send" /\ pc[Caller] \notin {"idle", "panic"}

\* C14: no deadlock between Send and the error sink: when a link reports
\* an Initialize or parameter-validation error, under every interleaving
\* with a caller's Send, the Send returns: no run ends with the caller
\* still inside Send (every step consumes a bounded resource, so a Send
\* that never returns shows as a state inside Send without a next step).
C14_SendNeverStuck ==
  (InSend /\ \E i \in LinkIds : links[i] \in {"errInit", "params"})
    => ENABLED Next

\* C15: the started flag goes to true exactly once and start runs at most
\* once: the link goroutines and the collector are launched once and the
\* chain's output channel is closed once, also when Send, Close, Wait or
\* RecvAs are first called from several goroutines at the same time.
C15_StartRunsOnce ==
  /\ st.flips <= 1
  /\ st.starts <= 1
  /\ st.outCloses <= 1

\* sequence a is an initial part of sequence b
IsPrefix(a, b) ==
  /\ Len(a) <= Len(b)
  /\ \A k \in 1..Len(a) : a[k] = b[k]

\* what the caller submitted to the chain or MultiChain
Submitted == Inputs(fl.topo, 1, fl.plan[1])

\* the outputs the composite has handed out so far: to the consumer of its
\* channel, or (with outputters) to its first outputter
HandedOut == IF fl.outs = <<>> THEN fl.received ELSE fl.offered[1]

\* C16: in a linear chain every link receives, and so emits, the values in
\* the order they were submitted, and the chain's outputs are received in
\* the order of the inputs that produced them.
C16_ChainKeepsOrder ==
  fl.topo = "chain" =>
    /\ \A i \in LinkIds : IsPrefix(fl.got[i], Submitted)
    /\ IsPrefix(HandedOut, Submitted)
    /\ fl.outClosed => HandedOut = Submitted

C16_Witness ==
  /\ fl.topo = "chain"
  /\ fl.outs = <<>>
  /\ fl.plan[1] = MaxItems
  /\ fl.outClosed
  /\ Len(fl.received) = MaxItems
  /\ fl.received[1] = <<0, 1>>
  /\ fl.received[MaxItems] = <<0, MaxItems>>

\* C17: every sibling of a MultiChain receives exactly the sequence of
\* values sent to the MultiChain, each once and in submission order; N
\* siblings that emit one output per input yield N * n outputs for n
\* inputs.
C17_SiblingsGetEveryInput ==
  fl.topo = "multi" =>
    /\ \A i \in LinkIds : IsPrefix(fl.got[i], Submitted)
    /\ fl.insClosed => \A i \in LinkIds : fl.got[i] = Submitted
    /\ fl.outClosed => Len(HandedOut) = N * fl.plan[1]

C17_Witness ==
  /\ fl.topo = "multi"
  /\ fl.outs = <<>>
  /\ fl.plan[1] = MaxItems
  /\ fl.outClosed
  /\ \A i \in LinkIds : fl.got[i] = Submitted
  /\ Len(fl.received) = N * MaxItems

\* the complete output of child chain i of a MultiChain or Hopper
ChildOutput(i) ==
  IF fl.topo = "multi"
  THEN [j \in 1..fl.plan[1] |-> Emits("multi", i, Submitted[j])]
  ELSE Inputs(fl.topo, i, fl.plan[i])

\* the outputs of children 1..k, one child after the other
RECURSIVE ChildrenInOrder(_)
ChildrenInOrder(k) ==
  IF k = 0 THEN <<>> ELSE ChildrenInOrder(k - 1) \o ChildOutput(k)

C19_HopperConcatenates ==
  fl.topo = "hopper" =>
    /\ IsPrefix(fl.received, ChildrenInOrder(N))
    /\ fl.outClosed => fl.received = ChildrenInOrder(N)
    /\ (\A i \in LinkIds : fl.sclosed[i]) => ENABLED FlowNextChild \/ fl.outClosed

C19_Witness ==
  /\ fl.topo = "hopper"
  /\ \A i \in LinkIds : fl.plan[i] = MaxItems
  /\ fl.outClosed
  /\ fl.received[MaxItems] = <<1, MaxItems>>
  /\ fl.received[MaxItems + 1] = <<2, 1>>
  /\ Len(fl.received) = N * MaxItems

\* everything the collector was given, in the order it was given
Collected == IF fl.topo = "chain" THEN Submitted ELSE ChildrenInOrder(N)

\* C20: an outputter that fails to accept a value does not kill the
\* chain: the collector reports no error for it, so the chain's error is
\* not set, and every value, later ones included, is still offered to
\* every outputter; the other outputters accept them all.
C20_OutputterFailureIgnored ==
  fl.outs # <<>> =>
    /\ fl.reported = {}
    /\ \A o \in 1..Len(fl.outs) :
         /\ IsPrefix(fl.offered[o], Collected)
         /\ fl.outClosed => fl.offered[o] = Collected
         /\ fl.outs[o] = "json" => fl.accepted[o] = fl.offered[o]

C20_Witness ==
  /\ fl.topo = "chain"
  /\ fl.outs = <<"markdown", "json">>
  /\ fl.plan[1] = MaxItems
  /\ fl.outClosed
  /\ fl.accepted[1] = <<>>
  /\ Len(fl.offered[1]) = MaxItems
  /\ Len(fl.accepted[2]) = MaxItems
  /\ fl.reported = {}


\* C21: once the collector has finished, a failure of an outputter's
\* Complete is in the composite's error sink (Error() is non-nil), for a
\* chain and for a MultiChain.
C21_CompleteFailureReported ==
  (fl.cpc = "done" /\ fl.topo \in {"chain", "multi"} /\ fl.badOut # 0)
    => fl.err # "nil"


\* the wrapped link emits one output per input: a StrLink given strings
OnePerInput ==
  pl.kind = "str" /\ \A j \in 1..Len(pl.input) : pl.input[j] = "s"

\* the inputs for which the wrapper has forwarded an output
Forwarded == {pl.out[a][1] : a \in 1..Len(pl.out)}

\* C22: a parallel wrapper around a link that emits one output per input
\* forwards exactly one output per input it received: never two outputs
\* for one input, each output is the one of an input it has taken, and
\* when the wrapper's channel is closed every input has its output,
\* whether its work item ran on a worker or inline; no run ends before
\* the channel is closed.
C22_OneOutputPerInput ==
  OnePerInput =>
    /\ \A a, b \in 1..Len(pl.out) : a # b => pl.out[a][1] # pl.out[b][1]
    /\ \A a \in 1..Len(pl.out) :
         /\ pl.out[a][1] \in 1..Len(pl.input)
         /\ pl.ran[pl.out[a][1]] # "none"
         /\ pl.out[a][2] = pl.input[pl.out[a][1]]
    /\ pl.closed => Forwarded = 1..Len(pl.input)
    /\ ~pl.closed => ENABLED NextPool

C22_Witness ==
  /\ OnePerInput
  /\ pl.closed
  /\ Len(pl.out) = MaxWork
  /\ \E j \in 1..MaxWork : pl.ran[j] = "inline"
  /\ \E j \in 1..MaxWork : pl.ran[j] = "worker"


\* C23: for every work item submitted to the pool the callback is invoked
\* exactly once: never twice, with an empty result when the worker link
\* could not be built or its processing failed, and no run ends with a
\* submitted item whose callback was not invoked.
C23_CallbackExactlyOnce ==
  \A j \in 1..Len(pl.input) :
    /\ pl.called[j] <= 1
    /\ (pl.called[j] = 1 /\ pl.werr[j] # "nil") => pl.results[j] = <<>>
    /\ (pl.ran[j] # "none" /\ pl.called[j] = 0) => ENABLED NextPool


\* the inputs whose work item fails in the wrapped link: the link cannot
\* be initialized, or its Process fails on (or cannot convert) the input
FailingItems ==
  {j \in 1..Len(pl.input) :
     /\ Convert("parallel", pl.input[j]) = "ok"
     /\ InvokeResult(pl.kind, pl.input[j]).err # "nil"}

\* the inputs for which the wrapped link emits an output
GoodItems ==
  {j \in 1..Len(pl.input) :
     /\ Convert("parallel", pl.input[j]) = "ok"
     /\ InvokeResult(pl.kind, pl.input[j]).err = "nil"
     /\ InvokeResult(pl.kind, pl.input[j]).results # <<>>}

\* C24: in a parallel wrapper the failure of the wrapped link on a work
\* item does not affect the others, under every strictness: the chain's
\* error stays nil, the failing item has no output, and when the wrapper's
\* channel is closed every other item's output has been forwarded; no run
\* ends before the channel is closed.
C24_WorkerFailureIsolated ==
  (pl.kind \in {"str", "procErr", "errInit"} /\ FailingItems # {}) =>
    /\ pl.err = "nil"
    /\ ~pl.ignoring
    /\ Forwarded \cap FailingItems = {}
    /\ pl.closed => Forwarded = GoodItems
    /\ ~pl.closed => ENABLED NextPool

C24_Witness ==
  /\ pl.kind = "str"
  /\ strictness = Strict
  /\ pl.closed
  /\ GoodItems # {}
  /\ Forwarded = GoodItems
  /\ \E j \in FailingItems : pl.ran[j] = "inline" /\ pl.called[j] = 1
  /\ \E j \in FailingItems : j < Len(pl.input) /\ j + 1 \in GoodItems


\* the items the link's processLoop has taken from its input
Taken == SubSeq(inv.given, 1, Len(inv.given) - Len(inv.input))

\* the items of a sequence that Convert hands to the link's Process
Convertible(k, items) ==
  SelectSeq(items, LAMBDA v : Convert(k, v) = "ok")

RequiredUnbound ==
  /\ ph.params # <<>>
  /\ ph.params[1].decl.required
  /\ ph.params[1].decl.default = NoArg
  /\ ~ph.params[1].hasBeenSet

\* C26: a link whose holder declares a required parameter with no default
\* and no bound argument fails validation with an error that names that
\* parameter (the error Base.initialize hands to the chain's error sink).
C26_RequiredParamNamed ==
  RequiredUnbound =>
    /\ Validate(ph)[1] # "nil"
    /\ Validate(ph)[2] = ParamName


\* C27: when a composite starts, no chain-level argument or default
\* replaces the value a link was explicitly created with: every such link
\* of a chain, of a nested chain and of a MultiChain sibling still reads
\* its own value.
C27_ExplicitArgKept ==
  \A i \in LinkIds :
    ca.explicit[i] => Arg(ca.links[i], ParamName) = ExplicitValue


\* the positions of the log at which a parameter was declared
Declared(h) == {i \in 1..Len(h.log) : h.log[i].op = "SetParam"}

\* the positions of the log at which a value was supplied
Supplied(h) == {i \in 1..Len(h.log) : h.log[i].op # "SetParam"}

\* the key of call i is the name or the flag of declaration d
Names(h, i, d) == h.log[i].key \in {ParamName, Flag(d)}

\* every call succeeded; the parameter was declared once, as d; the
\* parameter was given a value from a CLI list and, after every other
\* supply, by SetArg at position j
CliThenSetArg(h, d, j) ==
  /\ \A i \in 1..Len(h.errs) : h.errs[i] = "nil"
  /\ \E k \in Declared(h) : Declared(h) = {k} /\ h.log[k].decl = d
  /\ j \in Supplied(h)
  /\ \A i \in Supplied(h) : i <= j /\ Names(h, i, d)
  /\ h.log[j].op = "SetArg"
  /\ \E i \in Supplied(h) : i < j /\ h.log[i].op = "SetArgsFromList"

\* C28: once a parameter has been given a value from a CLI argument list
\* and then by a programmatic SetArg, the value read is the programmatic
\* one.
C28_SetArgWins ==
  \A d \in Decls, j \in 1..Len(ph.log) :
    CliThenSetArg(ph, d, j) =>
      Arg(ph, ParamName) = SetValue(NewParam(d), ph.log[j].val).param.value


\* the holder reached from h by the calls cs, in order
RECURSIVE Replay(_, _)
Replay(h, cs) == IF cs = <<>> THEN h ELSE Replay(Apply(h, Head(cs)), Tail(cs))

\* the calls were supplies followed by one declaration, all successful
SuppliedThenDeclared(h) ==
  /\ Len(h.log) >= 2
  /\ Declared(h) = {Len(h.log)}
  /\ \A i \in 1..Len(h.errs) : h.errs[i] = "nil"
  /\ \A i \in Supplied(h) : Names(h, i, h.log[Len(h.log)].decl)

\* the same calls with the declaration made first
DeclaredFirst(h) ==
  Replay(PhIdle, <<h.log[Len(h.log)]>> \o SubSeq(h.log, 1, Len(h.log) - 1))

\* C29: values supplied, by name or by shortcode, before their parameter is
\* declared are bound by the declaration to what declaring first and
\* supplying afterwards binds, and none of them stays pending.
C29_PendingBoundAsDeclaredFirst ==
  SuppliedThenDeclared(ph) =>
    /\ ph.params = DeclaredFirst(ph).params
    /\ \A k \in PhKeys : ph.pending[k] = NoArg


\* the holder before its last call
Before(h) == Replay(PhIdle, SubSeq(h.log, 1, Len(h.log) - 1))

\* the last call declared the parameter while it was declared with a
\* different identity
Redeclared(h) ==
  /\ h.log # <<>>
  /\ h.log[Len(h.log)].op = "SetParam"
  /\ Before(h).params # <<>>
  /\ Identifier(Before(h).params[1].decl)
       # Identifier(h.log[Len(h.log)].decl)

\* C30: declaring a parameter whose name is declared with a different
\* identity fails, and the holder keeps the declaration and its value.
C30_CollisionLeavesHolder ==
  Redeclared(ph) =>
    /\ ph.errs[Len(ph.errs)] = "collision"
    /\ ph.params = Before(ph).params
    /\ ph.pending = Before(ph).pending

\* a bound int parameter survived the declaration of a string parameter
\* of the same name
C30_Witness ==
  /\ Redeclared(ph)
  /\ ph.log[Len(ph.log)].decl.type = "string"
  /\ ph.params[1].hasBeenSet
  /\ ph.params[1].value = <<"int", "1">>


\* a link handed an error to the error handler it was started with: a
\* fatal process or conversion error, or a failed Initialize or Complete
ErrorRaised == killReported \/ hookFailed

\* C31: the links of a MultiChain's sibling chains are links of nested
\* chains; an error raised by one of them reaches the MultiChain's error
\* sink: after Close and Wait the MultiChain's Error() is non-nil.
C31_NestedErrorReported ==
  (topo = "multi" /\ ErrorRaised /\ closes > 0 /\ waited
     /\ pc[Caller] = "idle")
    => err # NoErr

\* a Strict MultiChain whose second sibling met a process error was closed
\* and waited for, and reports that error
C31_Witness ==
  /\ topo = "multi"
  /\ links = <<"str", "procErr">>
  /\ strictness = Strict
  /\ killReported
  /\ closes > 0 /\ waited /\ pc[Caller] = "idle"
  /\ err = "process"


\* C32: a chain that is handed, through WithAddedLinks, a link that a
\* chain has already claimed has the error link-in-use afterwards.
C32_AddedClaimedLinkIsAnError ==
  [][\A k \in 1..Len(built) :
       (/\ built[k].kind = "chain"
        /\ Len(built'[k].links) = Len(built[k].links) + 1
        /\ built'[k].links[Len(built'[k].links)] \in claimed)
         => built'[k].err # NoErr]_vars


\* C33: while Send and Close run in different goroutines, no Send sends on
\* the input channel after it was closed: every value is delivered to the
\* head link or the Send returns an error.
C33_SendNeverOnClosedInput == ~st.sentOnClosed


\* the chain was built with a link that another chain had claimed
BuiltWithClaimedLink == errHistory # <<>> /\ errHistory[1] = "inUse"

\* C34: a chain in error because it was built with an already claimed
\* link never runs its links: none of them is started (no Initialize,
\* Process or Complete) and none has its output channel closed, whatever
\* Send, Close or Wait is called on the chain.
C34_ClaimedLinkNeverRun ==
  BuiltWithClaimedLink =>
    \A i \in LinkIds : pc[L(i)] = "off" /\ ~chClosed[i]


\* C35: a link whose Initialize returns an error calls Process on no input.
C35_FailedInitializeNeverProcesses ==
  \A i \in LinkIds : InitializeFails(links[i]) => i \notin processed


\* the run has ended: no goroutine can take a step
RunEnded == ~ENABLED NextMultiFail

\* C36: a MultiChain with a sibling whose link fails at start-up, that was
\* sent inputs and then closed, closes its output channel and lets Wait
\* return: no run ends with the output channel open or the caller inside
\* Wait (every step consumes a bounded resource, so what never happens in
\* a run shows in the state the run ends in).
C36_FailedSiblingStillTerminates ==
  (sends > 0 /\ closes > 0 /\ ~sendAfterClose /\ RunEnded)
    => (outClosed /\ pc[Caller] = "idle")


\* C37: a chain without outputters hands out nothing on its own channel
\* until its last link's channel has closed: while that channel is open,
\* and so as long as the chain's input was not closed, a receiver has
\* received no value.
C37_NothingBeforeTailCloses ==
  (fl.topo = "chain" /\ fl.outs = <<>>) =>
    /\ ~fl.lclosed[N] => fl.received = <<>>
    /\ ~fl.inClosed[1] => fl.received = <<>>

\* every input was processed and is buffered by the collector, the input
\* is still open, and nothing was received
C37_Witness ==
  /\ fl.topo = "chain" /\ fl.outs = <<>>
  /\ fl.plan[1] = MaxItems
  /\ Len(fl.outputItems) = MaxItems
  /\ ~fl.inClosed[1]
  /\ ~fl.lclosed[N]
  /\ fl.received = <<>>


C39_EveryOutputterCompleted ==
  fl.cpc = "done" => fl.completeCalls = fl.outs


\* C40: no callback of a parallel wrapper sends on the wrapper's closed
\* channel; when that channel is closed no work item is queued or running,
\* no produced output is still waiting to be sent, and every output of
\* every item that ran is on the channel; once
\* Shutdown has closed the work channel the wrapper is past its last input
\* and submits nothing more.
C40_OutputsSentBeforeClose ==
  /\ ~pl.sentOnClosed
  /\ pl.closed =>
       /\ pl.workChan = <<>>
       /\ \A w \in 0..PoolWorkers : pl.witem[w] = 0 /\ pl.wpend[w] = <<>>
       /\ \A j \in 1..Len(pl.input) :
            pl.ran[j] # "none" =>
              Cardinality({a \in 1..Len(pl.out) : pl.out[a][1] = j})
                = Len(pl.results[j])
  /\ pl.chanClosed =>
       /\ pl.lpc \in {"shutdown", "done"}
       /\ pl.next > Len(pl.input)

====
